---------------------------- MODULE Spec2Model ----------------------------
(***************************************************************************)
(* A model of logflow: the per-source ring buffer (internal/log/buffer.go), *)
(* the IPC server with its bounded queue (internal/ipc/server.go), the      *)
(* dashboard's log consumer, key handling and rendering (internal/ui), the  *)
(* line parser (internal/log), the feeders (internal/sources) and the       *)
(* process lifecycle (cmd/logflow/main.go).                                 *)
(*                                                                         *)
(* The module holds several specifications over one set of variables; each *)
(* specification moves its own group of variables and leaves the others at *)
(* their initial values:                                                   *)
(*   SpecBuffer    one Buffer driven sequentially by Add and Clear          *)
(*   Spec          the ingestion pipeline: connection handlers, the server  *)
(*                 queue, the queue consumer and the dashboard's panes      *)
(*   SpecReaders   one Buffer with its writer and a reader as two          *)
(*                 goroutines, every lock and field access a step           *)
(*   SpecServer    the pipeline with the lines the handlers meet recorded   *)
(*   SpecLifecycle dashboard processes starting and shutting down on one    *)
(*                 host, with the goroutines of their servers               *)
(*   SpecLifecycleFair  SpecLifecycle with the server's goroutines weakly   *)
(*                 fair                                                     *)
(*   SpecKeys      the dashboard's event loop: key presses, first entries   *)
(*                 of new sources, and the end of the program               *)
(*   SpecKeysFair  SpecKeys with the program's quit weakly fair             *)
(*   SpecFeeder    one logflow process from its flags on: the dashboard, or *)
(*                 a pipe or container feeder writing to the socket         *)
(*   SpecFeederFair  SpecFeeder with the process and its origin weakly fair *)
(*   SpecParser    one line turned into a LogEntry by NewLogEntry           *)
(*   SpecConsume   the pipeline under keys that change the modes, with the  *)
(*                 queue consumer and the event loop weakly fair            *)
(*   SpecRender    the dashboard's event loop with View after every Update  *)
(*   SpecLayout    the same loop with several panes in the three layouts    *)
(***************************************************************************)
EXTENDS Integers, Sequences, FiniteSets, TLC

(***************************************************************************)
(* Bounds of the model.                                                    *)
(***************************************************************************)
\* Largest buffer capacity NewBuffer is called with in SpecBuffer.
MaxSize == 3
\* Largest number of Add calls made on one buffer in SpecBuffer.
MaxAdds == 4
\* Largest buffer capacity in SpecReaders.
ReaderMaxSize == 2
\* Largest number of Add calls the writer makes in SpecReaders.
ReaderMaxAdds == 3
\* Capacity of the server queue in Spec; stands for the 1000 of
\* make(chan *LogEntry, 1000) (server.go:43).
LogChanCap == 2
\* Capacity of a pane's buffer in Spec; stands for the 1000 of
\* NewPane(entry.Source, 1000) (app.go:252).
PaneBufferSize == 3
\* Largest number of log messages the peers send, all together, in Spec.
MaxSend == 4
\* Largest number of keys, the quit keys aside, pressed in SpecKeys.
MaxKeys == 3

\* SpecFeeder: the log messages a feeder writes.
MaxFeederSend == 2

\* SpecParser: the words of a plain line.
MaxWords == 2

\* SpecRender: the entries that arrive.
MaxRenderLogs == 3

\* SpecLayout: the panes of the dashboard.
MaxPanes == 5

VARIABLES
    buf,        \* SpecBuffer: the Buffer under test (entries, size, index, count)
    hist,       \* SpecBuffer (ghost): every entry passed to Add since NewBuffer
    cleared,    \* SpecBuffer (ghost): TRUE once Clear has been called
    since,      \* SpecBuffer (ghost): the entries passed to Add since the last Clear
    hstate,     \* Spec: per connection, where its handleClient goroutine is
    nlog,       \* Spec: per connection, how many log entries its peer has sent
    last,       \* Spec (ghost): <<connection, kind>> of the line last scanned
    logChan,    \* Spec: Server.logChan, the buffered channel, oldest first
    pending,    \* Spec: the entry listenForLogs holds between receive and p.Send
    panes,      \* Spec: App.panes, source name -> Pane
    paneOrder,  \* Spec: App.paneOrder
    focusedPane,\* Spec: App.focusedPane
    paused,     \* Spec: App.paused
    discarded,  \* Spec (ghost): the entries consumed while paused
    seen,       \* Spec (ghost): source names in order of first consumption
    sockFile,   \* SpecLifecycle: whose listening socket the file at SocketPath is
    dpc,        \* SpecLifecycle: per dashboard process, where its main goroutine is
    listener,   \* SpecLifecycle: per dashboard, the state of Server.listener
    quit,       \* SpecLifecycle: per dashboard, whether Server.quit is closed
    apc,        \* SpecLifecycle: per dashboard, where acceptConnections is
    cpc,        \* SpecLifecycle: per dashboard, where the signal goroutine is in Close
    clients,    \* SpecLifecycle: per dashboard, the keys of Server.clients
    conn,       \* SpecLifecycle: per connection, its server, handler and descriptor
    mutex,      \* SpecReaders: Buffer.mutex, [writer: held for writing, readers: count]
    wpc,        \* SpecReaders: where the writer goroutine is in Add or Clear
    warg,       \* SpecReaders: the writer's call, [name, entry]
    rpc,        \* SpecReaders: where the reader goroutine is
    rop,        \* SpecReaders: the reader's call, [name, level, term]
    rres,       \* SpecReaders: what the reader has read, then what it returns
    nadds,      \* SpecReaders: the number of Add calls made
    logical,    \* SpecReaders (ghost): the content after the writes that have returned
    allowed,    \* SpecReaders (ghost): the contents the reader's call may observe
    layout,     \* SpecKeys: App.layout
    viewMode,   \* SpecKeys: App.viewMode
    zoomedPane, \* SpecKeys: App.zoomedPane
    searchMode, \* SpecKeys: App.searchMode
    searchQuery,\* SpecKeys: App.searchQuery, a sequence of one-character strings
    searchResults, \* SpecKeys: App.searchResults
    filterLevel,\* SpecKeys: App.filterLevel
    followMode, \* SpecKeys: App.followMode
    tstate,     \* SpecKeys: the tea.Program: "running", "quitting", "done"
    nkeys,      \* SpecKeys: the number of key presses handled
    flags,      \* SpecFeeder: sourceName, dockerContainer, podmanContainer
    fpc,        \* SpecFeeder: where the process is in main.go
    feeder,     \* SpecFeeder: the function runDashboard called, its arguments
    fconn,      \* SpecFeeder: Client.conn: "none", "open", "peerClosed", "closed"
    fwire,      \* SpecFeeder: the messages written to the connection
    pline,      \* SpecParser: the line NewLogEntry was called with
    pentry,     \* SpecParser: the entry NewLogEntry returned
    width,      \* SpecRender: App.width, the width of the window
    height,     \* SpecRender: App.height, the height of the window
    nlogs       \* SpecRender: the number of entries that have arrived

bufVars == <<buf, hist, cleared, since>>

serverVars == <<hstate, nlog, last, logChan>>

appVars == <<pending, panes, paneOrder, focusedPane, paused, discarded, seen>>

pipeVars == <<serverVars, appVars>>

lifeVars == <<sockFile, dpc, listener, quit, apc, cpc, clients, conn>>

readVars == <<mutex, wpc, warg, rpc, rop, rres, nadds, logical, allowed>>

keyVars == <<layout, viewMode, zoomedPane, searchMode, searchQuery,
             searchResults, filterLevel, followMode, tstate, nkeys>>

feedVars == <<flags, fpc, feeder, fconn, fwire>>

parseVars == <<pline, pentry>>

renderVars == <<width, height, nlogs>>

vars == <<bufVars, pipeVars, lifeVars, readVars, keyVars, feedVars, parseVars, renderVars>>

\* What the actions of one specification leave unchanged of the others.
nonBufVars == <<pipeVars, lifeVars, readVars, keyVars, feedVars, parseVars, renderVars>>

nonPipeVars == <<bufVars, lifeVars, readVars, keyVars, feedVars, parseVars, renderVars>>

nonLifeVars == <<bufVars, pipeVars, readVars, keyVars, feedVars, parseVars, renderVars>>

\* SpecReaders works on buf; hist, cleared and since are not used there.
nonReadVars ==
    <<hist, cleared, since, pipeVars, lifeVars, keyVars, feedVars, parseVars, renderVars>>

\* The fields of the App.
appFields == <<panes, paneOrder, layout, viewMode, focusedPane, zoomedPane,
               searchMode, searchQuery, searchResults, filterLevel, followMode,
               paused>>

\* SpecKeys works on the dashboard's panes, focus and pause flag.
nonKeyVars ==
    <<bufVars, serverVars, pending, discarded, seen, lifeVars, readVars,
      feedVars, parseVars, renderVars>>

nonFeedVars ==
    <<bufVars, pipeVars, lifeVars, readVars, keyVars, parseVars, renderVars>>

nonParseVars ==
    <<bufVars, pipeVars, lifeVars, readVars, keyVars, feedVars, renderVars>>

\* SpecRender works on the App and on the state of the program.
nonRenderVars ==
    <<nkeys, bufVars, serverVars, pending, discarded, seen, lifeVars, readVars,
      feedVars, parseVars>>

(***************************************************************************)
(* Sequences.                                                              *)
(***************************************************************************)
Min(a, b) == IF a < b THEN a ELSE b

\* The last n elements of s (all of s when it is shorter).
LastN(s, n) == SubSeq(s, Len(s) - Min(n, Len(s)) + 1, Len(s))

\* The set of elements of s.
Range(s) == {s[i] : i \in 1..Len(s)}

\* No element occurs twice in s.
NoDuplicates(s) == \A i, j \in 1..Len(s) : s[i] = s[j] => i = j

\* s is an initial segment of t.
IsPrefix(s, t) == Len(s) <= Len(t) /\ SubSeq(t, 1, Len(s)) = s

\* s is a subsequence of t: s is t with some elements left out.
RECURSIVE IsSubseq(_, _)
IsSubseq(s, t) ==
    IF s = <<>> THEN TRUE
    ELSE IF t = <<>> THEN FALSE
    ELSE IF Head(s) = Head(t) THEN IsSubseq(Tail(s), Tail(t))
    ELSE IsSubseq(s, Tail(t))

(***************************************************************************)
(* internal/log/entry.go: LogLevel and LogEntry.                           *)
(***************************************************************************)
LogLevelDebug == "DEBUG"
LogLevelInfo  == "INFO"
LogLevelWarn  == "WARN"
LogLevelError == "ERROR"

LogLevels == {LogLevelDebug, LogLevelInfo, LogLevelWarn, LogLevelError}

\* A LogEntry value. The timestamp is a logical clock reading; content and raw
\* are sequences of one-character strings.
LogEntry(ts, source, level, content, raw) ==
    [Timestamp |-> ts, Source |-> source, Level |-> level,
     Content |-> content, Raw |-> raw]

\* The zero value of LogEntry, which make([]LogEntry, size) fills the backing
\* array with.
ZeroEntry == LogEntry(0, "", "", <<>>, <<>>)

\* The entries Add is called with in SpecBuffer.
BufferEntries ==
    { LogEntry(1, "web", LogLevelError, <<"E", "r", "r">>, <<"E", "r", "r">>),
      LogEntry(2, "web", LogLevelInfo,  <<"u", "p">>,      <<"U", "P">>),
      LogEntry(3, "web", LogLevelWarn,  <<"r", "e">>,      <<"r", "e">>),
      LogEntry(4, "web", LogLevelDebug, <<"d">>,           <<"Z", "d">>) }

(***************************************************************************)
(* internal/log/buffer.go: Buffer.  A buffer is the record of its fields;  *)
(* entries is the backing array, indexed 0..size-1 as in the source.       *)
(***************************************************************************)
NewBuffer(size) ==
    [entries |-> [i \in 0..(size - 1) |-> ZeroEntry],
     size    |-> size,
     index   |-> 0,
     count   |-> 0]

\* A plausible slip in Add: the cursor is not wrapped to 0 but stays on the
\* last slot once it reaches the end of the backing array.
AddNoWrap(b, entry) ==
    [b EXCEPT !.entries = [b.entries EXCEPT ![b.index] = entry],
              !.index   = Min(b.index + 1, b.size - 1),
              !.count   = IF b.count < b.size THEN b.count + 1 ELSE b.count]

\* A plausible slip in Add: the count is incremented on every call, full or
\* not.
AddCountUncapped(b, entry) ==
    [b EXCEPT !.entries = [b.entries EXCEPT ![b.index] = entry],
              !.index   = (b.index + 1) % b.size,
              !.count   = b.count + 1]

\* Buffer.Add: store at the cursor, advance the cursor modulo size, count up
\* to size.
Add(b, entry) ==
    [b EXCEPT !.entries = [b.entries EXCEPT ![b.index] = entry],
              !.index   = (b.index + 1) % b.size,
              !.count   = IF b.count < b.size THEN b.count + 1 ELSE b.count]

\* copy(dst, src) of Go on the slice b.entries[lo:hi], as a sequence.
Slice(b, lo, hi) == [i \in 1..(hi - lo) |-> b.entries[lo + i - 1]]

\* Buffer.GetAll: nil when empty; entries[:count] while not full; otherwise the
\* segment from the cursor to the end followed by the segment before the cursor.
GetAll(b) ==
    IF b.count = 0 THEN <<>>
    ELSE IF b.count < b.size THEN Slice(b, 0, b.count)
    ELSE Slice(b, b.index, b.size) \o Slice(b, 0, b.index)

\* A plausible slip in Clear: the count is reset, the cursor is not.
ClearCountOnly(b) == [b EXCEPT !.count = 0]

\* Buffer.Clear: count and cursor to zero; the backing array is left as it is.
Clear(b) == [b EXCEPT !.count = 0, !.index = 0]

\* Buffer.Count.
Count(b) == b.count

\* A plausible slip in GetRecent: the slice is taken from the front.
GetRecentOldest(b, n) ==
    LET all == GetAll(b)
    IN  IF Len(all) <= n THEN all ELSE SubSeq(all, 1, n)

\* Buffer.GetRecent.
GetRecent(b, n) ==
    LET all == GetAll(b)
    IN  IF Len(all) <= n THEN all ELSE SubSeq(all, Len(all) - n + 1, Len(all))

\* A plausible slip in the levelOrder map: ERROR ranked below WARN.
LevelOrderErrorBelowWarn(level) ==
    CASE level = LogLevelDebug -> 0
      [] level = LogLevelInfo  -> 1
      [] level = LogLevelError -> 2
      [] level = LogLevelWarn  -> 3
      [] OTHER                 -> 0

\* levelOrder[level] of Buffer.Filter: a level the map has no key for reads
\* as 0.
LevelOrder(level) ==
    CASE level = LogLevelDebug -> 0
      [] level = LogLevelInfo  -> 1
      [] level = LogLevelWarn  -> 2
      [] level = LogLevelError -> 3
      [] OTHER                 -> 0

\* The loop of Buffer.Filter over the snapshot GetAll returned.
RECURSIVE FilterEntries(_, _)
FilterEntries(all, minLevel) ==
    IF all = <<>> THEN <<>>
    ELSE IF LevelOrder(Head(all).Level) >= LevelOrder(minLevel)
            THEN <<Head(all)>> \o FilterEntries(Tail(all), minLevel)
            ELSE FilterEntries(Tail(all), minLevel)

\* Buffer.Filter.
Filter(b, minLevel) == FilterEntries(GetAll(b), minLevel)

\* strings.ToLower on one character: the upper-case letters map to their
\* lower-case ones, every other character to itself.
UpperLetters ==
    <<"A", "B", "C", "D", "E", "F", "G", "H", "I", "J", "K", "L", "M",
      "N", "O", "P", "Q", "R", "S", "T", "U", "V", "W", "X", "Y", "Z">>

LowerLetters ==
    <<"a", "b", "c", "d", "e", "f", "g", "h", "i", "j", "k", "l", "m",
      "n", "o", "p", "q", "r", "s", "t", "u", "v", "w", "x", "y", "z">>

\* The lower-case letter of each upper-case letter.
LowerOf ==
    [ch \in Range(UpperLetters) |->
        LowerLetters[CHOOSE i \in 1..Len(UpperLetters) : UpperLetters[i] = ch]]

ToLowerChar(ch) == IF ch \in DOMAIN LowerOf THEN LowerOf[ch] ELSE ch

\* A plausible slip in Search: the strings are compared as they are.
ToLowerIdentity(str) == str

\* strings.ToLower.
ToLower(str) == [i \in 1..Len(str) |-> ToLowerChar(str[i])]

\* strings.Contains: substr occurs in str as a contiguous run (the empty
\* string occurs in every string).
Contains(str, substr) ==
    \E i \in 0..(Len(str) - Len(substr)) :
        SubSeq(str, i + 1, i + Len(substr)) = substr

\* The loop of Buffer.Search over the snapshot GetAll returned.
RECURSIVE SearchEntries(_, _)
SearchEntries(all, term) ==
    IF all = <<>> THEN <<>>
    ELSE IF \/ Contains(ToLower(Head(all).Content), ToLower(term))
            \/ Contains(ToLower(Head(all).Raw), ToLower(term))
            THEN <<Head(all)>> \o SearchEntries(Tail(all), term)
            ELSE SearchEntries(Tail(all), term)

\* Buffer.Search.
Search(b, term) == SearchEntries(GetAll(b), term)

\* sync.RWMutex: Lock waits until nobody holds the mutex, RLock until no
\* writer holds it.
FreeMutex == [writer |-> FALSE, readers |-> 0]

CanLock(m) == ~m.writer /\ m.readers = 0

\* A plausible slip: the read path takes no lock that excludes the writer.
CanRLockAlways(m) == TRUE

CanRLock(m) == ~m.writer

\* No call in progress.
NoCall == [name |-> "none"]

(***************************************************************************)
(* internal/log/parser.go and NewLogEntry of internal/log/entry.go.  A     *)
(* text is a sequence of one-character strings.  A line is the record of   *)
(* the words it is written with (a plain line) or of the object            *)
(* json.Unmarshal makes of it (a line that is a JSON object); its text is  *)
(* spelled out from these.  A JSON value is the record of its kind and of  *)
(* the way it is written; a time.Time is a reading of the logical clock.   *)
(***************************************************************************)
\* The characters of each word, key and value the lines are written with.
Spell ==
    ("ERROR" :> <<"E", "R", "R", "O", "R">>)
    @@ ("ERR" :> <<"E", "R", "R">>)
    @@ ("WARN" :> <<"W", "A", "R", "N">>)
    @@ ("WARNING" :> <<"W", "A", "R", "N", "I", "N", "G">>)
    @@ ("INFO" :> <<"I", "N", "F", "O">>)
    @@ ("INFORMATION" :>
          <<"I", "N", "F", "O", "R", "M", "A", "T", "I", "O", "N">>)
    @@ ("DEBUG" :> <<"D", "E", "B", "U", "G">>)
    @@ ("DBG" :> <<"D", "B", "G">>)
    @@ ("stderr" :> <<"s", "t", "d", "e", "r", "r">>)
    @@ ("Warning" :> <<"W", "a", "r", "n", "i", "n", "g">>)
    @@ ("wArN" :> <<"w", "A", "r", "N">>)
    @@ ("info" :> <<"i", "n", "f", "o">>)
    @@ ("dbg" :> <<"d", "b", "g">>)
    @@ ("Debug" :> <<"D", "e", "b", "u", "g">>)
    @@ ("ok" :> <<"o", "k">>)
    @@ (" " :> <<" ">>)
    @@ ("2024-01-01 10:00:00" :>
          <<"2", "0", "2", "4", "-", "0", "1", "-", "0", "1", " ", "1", "0",
          ":", "0", "0", ":", "0", "0">>)
    @@ ("ts" :> <<"t", "s">>)
    @@ ("timestamp" :> <<"t", "i", "m", "e", "s", "t", "a", "m", "p">>)
    @@ ("msg" :> <<"m", "s", "g">>)
    @@ ("message" :> <<"m", "e", "s", "s", "a", "g", "e">>)
    @@ ("level" :> <<"l", "e", "v", "e", "l">>)
    @@ ("severity" :> <<"s", "e", "v", "e", "r", "i", "t", "y">>)
    @@ ("user" :> <<"u", "s", "e", "r">>)
    @@ ("boom" :> <<"b", "o", "o", "m">>)
    @@ ("2024-01-01T10:00:00Z" :>
          <<"2", "0", "2", "4", "-", "0", "1", "-", "0", "1", "T", "1", "0",
          ":", "0", "0", ":", "0", "0", "Z">>)
    @@ ("soon" :> <<"s", "o", "o", "n">>)
    @@ ("error" :> <<"e", "r", "r", "o", "r">>)
    @@ ("bob" :> <<"b", "o", "b">>)
    @@ ("7" :> <<"7">>)

\* The upper-case letter of each lower-case letter.
UpperOf ==
    [ch \in Range(LowerLetters) |->
        UpperLetters[CHOOSE i \in 1..Len(LowerLetters) : LowerLetters[i] = ch]]

\* strings.ToUpper.
ToUpper(str) ==
    [i \in 1..Len(str) |-> IF str[i] \in DOMAIN UpperOf THEN UpperOf[str[i]]
                           ELSE str[i]]

\* The texts time.Parse accepts under one of the layouts tried, and the
\* instant each denotes.
TimeOf == ("2024-01-01T10:00:00Z" :> 5) @@ ("2024-01-01 10:00:00" :> 6)

\* time.Now() as NewLogEntry reads it: later than every instant written in a
\* line.
Now == 9

\* A line that is not a JSON object.
NoJson == [kind |-> "none"]

JsonString(str) == [kind |-> "string", str |-> str]

JsonNumber(str) == [kind |-> "number", str |-> str]

\* map[string]interface{} with no key.
NoFields == [k \in {} |-> k]

\* The order in which the members of a JSON line are written.
JsonKeyOrder ==
    <<"ts", "timestamp", "msg", "message", "level", "severity", "user">>

PlainLine(words) == [words |-> words, json |-> NoJson]

JsonLine(obj) == [words |-> <<>>, json |-> obj]

\* The characters of the words, one after the other.
RECURSIVE SpellWords(_)
SpellWords(words) ==
    IF words = <<>> THEN <<>>
    ELSE Spell[Head(words)] \o SpellWords(Tail(words))

\* The members of a JSON object as they are written: "key":"value", a number
\* without the quotes, a comma before every member but the first.
RECURSIVE SpellMembers(_, _, _)
SpellMembers(obj, keys, first) ==
    IF keys = <<>> THEN <<>>
    ELSE IF Head(keys) \notin DOMAIN obj
       THEN SpellMembers(obj, Tail(keys), first)
    ELSE LET v     == obj[Head(keys)]
             quote == IF v.kind = "string" THEN <<"\"">> ELSE <<>>
         IN  (IF first THEN <<>> ELSE <<",">>)
                \o <<"\"">> \o Spell[Head(keys)] \o <<"\"", ":">>
                \o quote \o Spell[v.str] \o quote
                \o SpellMembers(obj, Tail(keys), FALSE)

\* The text of a line.
Text(line) ==
    IF line.json = NoJson THEN SpellWords(line.words)
    ELSE <<"{">> \o SpellMembers(line.json, JsonKeyOrder, TRUE) \o <<"}">>

\* A plausible slip in ParseLevel: the line is scanned as it is written.
ParseLevelCaseSensitive(text) ==
    IF Contains(text, Spell["ERROR"]) \/ Contains(text, Spell["ERR"])
       THEN LogLevelError
    ELSE IF Contains(text, Spell["WARN"]) \/ Contains(text, Spell["WARNING"])
       THEN LogLevelWarn
    ELSE IF Contains(text, Spell["INFO"]) \/ Contains(text, Spell["INFORMATION"])
       THEN LogLevelInfo
    ELSE IF Contains(text, Spell["DEBUG"]) \/ Contains(text, Spell["DBG"])
       THEN LogLevelDebug
    ELSE LogLevelInfo

\* Parser.ParseLevel.
ParseLevel(text) ==
    LET upperLine == ToUpper(text)
    IN  IF \/ Contains(upperLine, Spell["ERROR"])
           \/ Contains(upperLine, Spell["ERR"])
           THEN LogLevelError
        ELSE IF \/ Contains(upperLine, Spell["WARN"])
                \/ Contains(upperLine, Spell["WARNING"])
           THEN LogLevelWarn
        ELSE IF \/ Contains(upperLine, Spell["INFO"])
                \/ Contains(upperLine, Spell["INFORMATION"])
           THEN LogLevelInfo
        ELSE IF \/ Contains(upperLine, Spell["DEBUG"])
                \/ Contains(upperLine, Spell["DBG"])
           THEN LogLevelDebug
        ELSE LogLevelInfo

\* The field names normalizeJSONFields looks for, in the order it tries them.
TimestampFields == <<"timestamp", "ts", "time", "@timestamp", "datetime">>

MessageFields == <<"message", "msg", "text", "content">>

LevelFields == <<"level", "severity", "priority">>

\* The first of fields that is a key of data, as a sequence of one name, or
\* the empty sequence: the loop over the names up to its break.
RECURSIVE FirstPresent(_, _)
FirstPresent(fields, data) ==
    IF fields = <<>> THEN <<>>
    ELSE IF Head(fields) \in DOMAIN data THEN <<Head(fields)>>
    ELSE FirstPresent(Tail(fields), data)

\* Parser.normalizeJSONFields.
NormalizeJSONFields(data) ==
    LET tsField  == FirstPresent(TimestampFields, data)
        msgField == FirstPresent(MessageFields, data)
        lvlField == FirstPresent(LevelFields, data)
        timestamp ==
            IF /\ tsField # <<>>
               /\ data[tsField[1]].kind = "string"
               /\ data[tsField[1]].str \in DOMAIN TimeOf
               THEN "timestamp" :>
                       [kind |-> "time", t |-> TimeOf[data[tsField[1]].str]]
               ELSE NoFields
        message ==
            IF msgField # <<>> THEN "message" :> data[msgField[1]]
            ELSE NoFields
        level ==
            IF lvlField # <<>> THEN "level" :> data[lvlField[1]]
            ELSE NoFields
        result == timestamp @@ message @@ level
    IN  result @@ [k \in DOMAIN data \ DOMAIN result |-> data[k]]

\* strings.HasPrefix(strings.TrimSpace(line), "{").
StartsWithBrace(text) ==
    \E i \in 1..Len(text) :
        /\ text[i] = "{"
        /\ \A j \in 1..(i - 1) : text[j] = " "

\* timestampPattern.FindString on a plain line: the first word that is a
\* date and a time of day, or the empty sequence.
RECURSIVE FindStamp(_)
FindStamp(words) ==
    IF words = <<>> THEN <<>>
    ELSE IF Head(words) = "2024-01-01 10:00:00" THEN <<Head(words)>>
    ELSE FindStamp(Tail(words))

\* Parser.ParseStructured.
ParseStructured(line) ==
    IF StartsWithBrace(Text(line)) /\ line.json # NoJson
       THEN NormalizeJSONFields(line.json)
    ELSE LET match == FindStamp(line.words)
         IN  IF match # <<>> /\ match[1] \in DOMAIN TimeOf
                THEN "timestamp" :> [kind |-> "time", t |-> TimeOf[match[1]]]
                ELSE NoFields

\* NewLogEntry: the entry with its metadata.
NewLogEntry(source, line) ==
    LET structured == ParseStructured(line)
        hasTime == /\ "timestamp" \in DOMAIN structured
                   /\ structured["timestamp"].kind = "time"
        hasMsg  == /\ "message" \in DOMAIN structured
                   /\ structured["message"].kind = "string"
    IN  [Timestamp |-> IF hasTime THEN structured["timestamp"].t ELSE Now,
         Source    |-> source,
         Level     |-> ParseLevel(Text(line)),
         Content   |-> IF hasMsg THEN Spell[structured["message"].str]
                       ELSE Text(line),
         Raw       |-> Text(line),
         Metadata  |-> [k \in DOMAIN structured
                                 \ {"timestamp", "message", "level"}
                           |-> structured[k]]]

(***************************************************************************)
(* internal/ui/pane.go: Pane (the fields the log path, the clear command   *)
(* and the scroll commands touch).                                         *)
(***************************************************************************)
NewPane(name, bufferSize) ==
    [name |-> name, buffer |-> NewBuffer(bufferSize), scrollPos |-> 0,
     width |-> 0, height |-> 0]

\* Pane.AddEntry.
AddEntry(p, entry) == [p EXCEPT !.buffer = Add(p.buffer, entry)]

\* A plausible slip in Pane.Clear: the scroll position is kept.
PaneClearKeepScroll(p) == [p EXCEPT !.buffer = Clear(p.buffer)]

\* Pane.Clear.
PaneClear(p) == [p EXCEPT !.buffer = Clear(p.buffer), !.scrollPos = 0]

\* Pane.ScrollDown: one line down, up to len(entries) - (height - 2), at
\* least 0.
ScrollDown(p) ==
    LET maxScroll == Len(GetAll(p.buffer)) - (p.height - 2)
        limit     == IF maxScroll < 0 THEN 0 ELSE maxScroll
    IN  IF p.scrollPos < limit THEN [p EXCEPT !.scrollPos = @ + 1] ELSE p

\* Pane.ScrollUp.
ScrollUp(p) == IF p.scrollPos > 0 THEN [p EXCEPT !.scrollPos = @ - 1] ELSE p

\* Pane.Render, contentHeight: the rows of a pane of the given height that
\* show entries, at least 1.
ContentHeight(h) == IF h - 2 < 1 THEN 1 ELSE h - 2

\* A plausible slip in Render: follow mode does not move the scroll position.
RenderIgnoringFollow(p, w, h, level, follow) ==
    LET entries       == Filter(p.buffer, level)
        contentHeight == ContentHeight(h)
        nonNegative   == IF p.scrollPos < 0 THEN 0 ELSE p.scrollPos
        valid ==
            IF /\ Len(entries) > 0
               /\ nonNegative > Len(entries) - contentHeight
               THEN IF Len(entries) - contentHeight < 0 THEN 0
                    ELSE Len(entries) - contentHeight
               ELSE nonNegative
    IN  [p EXCEPT !.width = w, !.height = h, !.scrollPos = valid]

\* Pane.Render, as far as it changes the pane: the size is stored, the
\* scroll position is moved to the bottom in follow mode when there are more
\* filtered entries than rows, then made non-negative, then lowered to
\* len(entries) - contentHeight (at least 0) when there is an entry.
Render(p, w, h, level, follow) ==
    LET entries       == Filter(p.buffer, level)
        contentHeight == ContentHeight(h)
        followed ==
            IF follow /\ Len(entries) > contentHeight
               THEN Len(entries) - contentHeight
               ELSE p.scrollPos
        nonNegative == IF followed < 0 THEN 0 ELSE followed
        valid ==
            IF /\ Len(entries) > 0
               /\ nonNegative > Len(entries) - contentHeight
               THEN IF Len(entries) - contentHeight < 0 THEN 0
                    ELSE Len(entries) - contentHeight
               ELSE nonNegative
    IN  [p EXCEPT !.width = w, !.height = h, !.scrollPos = valid]

\* Pane.Render, visibleEntries: the entries the rendered pane p shows.
VisibleEntries(p, level) ==
    LET entries == Filter(p.buffer, level)
        start   == p.scrollPos
        end     == Min(start + ContentHeight(p.height), Len(entries))
    IN  IF Len(entries) > 0 /\ start < end
           THEN SubSeq(entries, start + 1, end)
           ELSE <<>>

(***************************************************************************)
(* internal/ipc: the connections, the lines a peer can put on one, and the *)
(* server queue.                                                           *)
(***************************************************************************)
\* The connections accepted during a run, and the source each peer names in
\* the entries it sends (runSourceFeeder's --source).
Conns == {"c1", "c2"}

SourceOf(c) == IF c = "c1" THEN "web" ELSE "api"

\* The i-th log entry the peer of connection c sends; its timestamp is the
\* peer's clock when it builds the entry, here the entry's position.
PeerEntry(c, i) == LogEntry(i, SourceOf(c), LogLevelInfo, <<>>, <<>>)

\* What one call of scanner.Scan() in handleClient can meet:
\*   log          a line that unmarshals to type "log" with log_entry set
\*   log_nil      type "log" without log_entry
\*   source_init, source_exit
\*   ping         a well-formed message of a type the switch has no case for
\*   invalid      a line json.Unmarshal rejects
\*   too_long     a line longer than bufio.MaxScanTokenSize: Scan returns false
\*   eof          the peer closed the connection: Scan returns false
LineKinds ==
    {"log", "log_nil", "source_init", "source_exit", "ping", "invalid",
     "too_long", "eof"}

\* The kinds for which Scan returns true and the loop body runs.
ScannedKinds == LineKinds \ {"too_long", "eof"}

\* A plausible slip in the send: a full queue evicts its oldest entry to make
\* room (overwrite instead of drop).
ChanSendEvictOldest(q, entry) ==
    IF Len(q) < LogChanCap THEN Append(q, entry) ELSE Append(Tail(q), entry)

\* select { case s.logChan <- entry: default: }: the entry is queued when the
\* channel has room and dropped otherwise.
ChanSend(q, entry) ==
    IF Len(q) < LogChanCap THEN Append(q, entry) ELSE q

\* A plausible slip in the receive: the entry is read and left in the queue.
ChanRecvKeepsEntry(q) == [entry |-> Head(q), rest |-> q]

\* A plausible slip in the receive: the newest queued entry is taken first.
ChanRecvNewest(q) ==
    [entry |-> q[Len(q)], rest |-> SubSeq(q, 1, Len(q) - 1)]

\* for entry := range s.LogChannel(): a receive takes the oldest queued entry.
ChanRecv(q) == [entry |-> Head(q), rest |-> Tail(q)]

(***************************************************************************)
(* internal/ui/app.go: the conversion and the pane lookup of               *)
(* handleLogEntry.                                                         *)
(***************************************************************************)
\* The ipc.LogEntry -> log.LogEntry conversion: a field-by-field copy, the
\* level re-typed from ipc.LogLevel to log.LogLevel (both strings).
ConvertEntry(e) ==
    LogEntry(e.Timestamp, e.Source, e.Level, e.Content, e.Raw)

\* make(map[string]*Pane): the map with no key.
NoPanes == [name \in {} |-> name]

\* a.panes after the lookup: a new pane under the source's name when absent.
PanesAfterLookup(ps, source) ==
    IF source \in DOMAIN ps THEN ps
    ELSE ps @@ (source :> NewPane(source, PaneBufferSize))

\* A plausible slip in the lookup: the name is appended on every entry.
OrderAppendAlways(ps, order, source) == Append(order, source)

\* a.paneOrder after the lookup: the name appended when the pane is new.
OrderAfterLookup(ps, order, source) ==
    IF source \in DOMAIN ps THEN order ELSE Append(order, source)

(***************************************************************************)
(* internal/ui/app.go: the key handling.  The App is the record of its     *)
(* fields; a handler is a function from the App, and the key, to the App   *)
(* after it.                                                               *)
(***************************************************************************)
LayoutHorizontal == "Horizontal"
LayoutVertical   == "Vertical"
LayoutAutoGrid   == "AutoGrid"

ViewMultiPane == "MultiPane"
ViewZoomed    == "Zoomed"

SearchNone   == "None"
SearchLocal  == "Local"
SearchGlobal == "Global"

\* The keys with a name: msg.String() is longer than one byte.
NamedKeys ==
    {"ctrl+c", "tab", "shift+tab", "ctrl+/", "enter", "esc", "backspace", "up"}

\* The digit keys, "1" first.
DigitKeys == <<"1", "2", "3", "4", "5", "6", "7", "8", "9">>

\* The keys pressed: the keys handleKeyPress and handleSearchInput have a
\* case for, a letter bound to nothing ("x"), shift+z ("Z"), a named key
\* bound to nothing ("up"), and a letter outside ASCII ("e_acute", one
\* character, two bytes).
Keys ==
    NamedKeys \cup Range(DigitKeys) \cup
       {"q", "l", "z", "h", "j", "k", "/", "?", "e", "w", "i", "a", " ", "f",
        "c", "x", "Z", "e_acute"}

\* len(msg.String()): the length in bytes.
KeyLen(key) ==
    IF key \in NamedKeys THEN 3 ELSE IF key = "e_acute" THEN 2 ELSE 1

\* int(msg.String()[0] - '1') for a digit key.
PaneNum(key) == (CHOOSE d \in 1..Len(DigitKeys) : DigitKeys[d] = key) - 1

\* A plausible slip in cycleLayout: the grid is left out of the cycle.
CycleLayoutSkipGrid(app) ==
    [app EXCEPT !.layout =
        CASE app.layout = LayoutHorizontal -> LayoutVertical
          [] app.layout = LayoutVertical   -> LayoutHorizontal
          [] app.layout = LayoutAutoGrid   -> LayoutHorizontal]

\* App.cycleLayout.
CycleLayout(app) ==
    [app EXCEPT !.layout =
        CASE app.layout = LayoutHorizontal -> LayoutVertical
          [] app.layout = LayoutVertical   -> LayoutAutoGrid
          [] app.layout = LayoutAutoGrid   -> LayoutHorizontal]

\* App.nextPane.
NextPane(app) ==
    IF Len(app.paneOrder) > 0
       THEN [app EXCEPT !.focusedPane = (@ + 1) % Len(app.paneOrder)]
       ELSE app

\* A plausible slip in prevPane: the step back stops at the first pane.
PrevPaneNoWrap(app) ==
    IF Len(app.paneOrder) > 0
       THEN [app EXCEPT !.focusedPane = IF @ = 0 THEN 0 ELSE @ - 1]
       ELSE app

\* App.prevPane.
PrevPane(app) ==
    IF Len(app.paneOrder) > 0
       THEN [app EXCEPT !.focusedPane =
                (@ - 1 + Len(app.paneOrder)) % Len(app.paneOrder)]
       ELSE app

\* App.scrollDown.
AppScrollDown(app) ==
    IF Len(app.paneOrder) > 0
       THEN [app EXCEPT !.panes[app.paneOrder[app.focusedPane + 1]] = ScrollDown(@)]
       ELSE app

\* App.scrollUp.
AppScrollUp(app) ==
    IF Len(app.paneOrder) > 0
       THEN [app EXCEPT !.panes[app.paneOrder[app.focusedPane + 1]] = ScrollUp(@)]
       ELSE app

\* App.clearFocusedPane.
ClearFocusedPane(app) ==
    IF Len(app.paneOrder) > 0
       THEN [app EXCEPT !.panes[app.paneOrder[app.focusedPane + 1]] = PaneClear(@)]
       ELSE app

\* A plausible slip in the zoom command: the zoomed index is not taken from
\* the focus.
ZoomNoCapture(app) ==
    IF app.viewMode = ViewMultiPane /\ Len(app.paneOrder) > 0
       THEN [app EXCEPT !.viewMode = ViewZoomed]
    ELSE IF app.viewMode = ViewZoomed
       THEN [app EXCEPT !.viewMode = ViewMultiPane]
    ELSE app

\* handleKeyPress, case "z".
Zoom(app) ==
    IF app.viewMode = ViewMultiPane /\ Len(app.paneOrder) > 0
       THEN [app EXCEPT !.viewMode = ViewZoomed, !.zoomedPane = app.focusedPane]
    ELSE IF app.viewMode = ViewZoomed
       THEN [app EXCEPT !.viewMode = ViewMultiPane]
    ELSE app

\* A plausible slip in the digit keys: the number is not compared with the
\* number of panes.
FocusPaneUnchecked(app, paneNum) ==
    [app EXCEPT !.zoomedPane = IF app.viewMode = ViewZoomed THEN paneNum ELSE @,
                !.focusedPane = paneNum]

\* A plausible slip in the digit keys: the zoomed index is left alone.
FocusPaneKeepZoomed(app, paneNum) ==
    IF paneNum < Len(app.paneOrder)
       THEN [app EXCEPT !.focusedPane = paneNum]
       ELSE app

\* handleKeyPress, the digit keys.
FocusPane(app, paneNum) ==
    IF paneNum < Len(app.paneOrder)
       THEN [app EXCEPT !.zoomedPane = IF app.viewMode = ViewZoomed
                                          THEN paneNum ELSE @,
                        !.focusedPane = paneNum]
       ELSE app

\* App.performSearch: the result list is emptied; the branches for the two
\* scopes look the panes up and do nothing with them.
PerformSearch(app) == [app EXCEPT !.searchResults = <<>>]

\* A plausible slip in handleSearchInput: backspace empties the query.
HandleSearchInputBackspaceClears(app, key) ==
    CASE key = "enter" ->
            [PerformSearch(app) EXCEPT !.searchMode = SearchNone]
      [] key \in {"esc", "backspace"} ->
            [app EXCEPT !.searchMode = IF key = "esc" THEN SearchNone ELSE @,
                        !.searchQuery = <<>>]
      [] OTHER ->
            IF KeyLen(key) = 1
               THEN [app EXCEPT !.searchQuery = Append(@, key)]
               ELSE app

\* App.handleSearchInput.
HandleSearchInput(app, key) ==
    CASE key = "enter" ->
            [PerformSearch(app) EXCEPT !.searchMode = SearchNone]
      [] key = "esc" ->
            [app EXCEPT !.searchMode = SearchNone, !.searchQuery = <<>>]
      [] key = "backspace" ->
            IF Len(app.searchQuery) > 0
               THEN [app EXCEPT !.searchQuery = SubSeq(@, 1, Len(@) - 1)]
               ELSE app
      [] OTHER ->
            IF KeyLen(key) = 1
               THEN [app EXCEPT !.searchQuery = Append(@, key)]
               ELSE app

\* The keys of the filter controls.
FilterKeys == {"e", "w", "i", "a"}

\* A plausible slip in the filter controls: "a" selects INFO.
FilterKeyLevelAllIsInfo(key) ==
    CASE key = "e" -> LogLevelError
      [] key = "w" -> LogLevelWarn
      [] key = "i" -> LogLevelInfo
      [] key = "a" -> LogLevelInfo

\* handleKeyPress, the filter controls: the level a filter key assigns to
\* a.filterLevel.
FilterKeyLevel(key) ==
    CASE key = "e" -> LogLevelError
      [] key = "w" -> LogLevelWarn
      [] key = "i" -> LogLevelInfo
      [] key = "a" -> LogLevelDebug

\* The switch of handleKeyPress.  The first case "l" is the one taken; the
\* second case "l" (nextPane in the vertical layout) is never reached.
HandleNormalKey(app, key) ==
    CASE key = "l" -> CycleLayout(app)
      [] key = "z" -> Zoom(app)
      [] key = "tab" -> NextPane(app)
      [] key = "shift+tab" -> PrevPane(app)
      [] key = "h" -> IF app.layout = LayoutVertical THEN PrevPane(app) ELSE app
      [] key = "j" -> IF app.layout = LayoutHorizontal
                         THEN NextPane(app) ELSE AppScrollDown(app)
      [] key = "k" -> IF app.layout = LayoutHorizontal
                         THEN PrevPane(app) ELSE AppScrollUp(app)
      [] key \in Range(DigitKeys) -> FocusPane(app, PaneNum(key))
      [] key = "/" ->
            [app EXCEPT !.searchMode = SearchLocal, !.searchQuery = <<>>]
      [] key \in {"ctrl+/", "?"} ->
            [app EXCEPT !.searchMode = SearchGlobal, !.searchQuery = <<>>]
      [] key \in FilterKeys ->
            [app EXCEPT !.filterLevel = FilterKeyLevel(key)]
      [] key = " " -> [app EXCEPT !.paused = ~@]
      [] key = "f" -> [app EXCEPT !.followMode = ~@]
      [] key = "c" -> ClearFocusedPane(app)
      [] OTHER -> app

\* A plausible slip in handleKeyPress: the quit keys are tested after the
\* search mode.
HandleKeyPressSearchFirst(app, key) ==
    IF app.searchMode # SearchNone
       THEN [app |-> HandleSearchInput(app, key), cmd |-> "nil"]
    ELSE IF key \in {"q", "ctrl+c"} THEN [app |-> app, cmd |-> "tea.Quit"]
    ELSE [app |-> HandleNormalKey(app, key), cmd |-> "nil"]

\* App.handleKeyPress: the App after the key, and the command returned.
HandleKeyPress(app, key) ==
    IF key \in {"q", "ctrl+c"} THEN [app |-> app, cmd |-> "tea.Quit"]
    ELSE IF app.searchMode # SearchNone
       THEN [app |-> HandleSearchInput(app, key), cmd |-> "nil"]
    ELSE [app |-> HandleNormalKey(app, key), cmd |-> "nil"]

\* App.handleLogEntry, as a function of the App and the entry.
AppHandleLogEntry(app, entry) ==
    LET found == PanesAfterLookup(app.panes, entry.Source)
    IN  [app EXCEPT
           !.paneOrder = OrderAfterLookup(app.panes, app.paneOrder, entry.Source),
           !.panes = IF ~app.paused
                        THEN [found EXCEPT ![entry.Source] =
                                              AddEntry(@, ConvertEntry(entry))]
                        ELSE found]

\* Go's integer division and remainder: the quotient is truncated toward 0.
GoDiv(a, b) == IF a >= 0 THEN a \div b ELSE -((-a) \div b)

GoMod(a, b) == a - b * GoDiv(a, b)

\* The height a horizontal layout without the remainder would give: a
\* plausible slip.
HorizontalHeightNoRemainder(n, h, i) == GoDiv(h, n)

\* App.renderHorizontalLayout of layout.go, currentHeight: the height of the
\* pane at index i (from 0) of n panes sharing the height h.
HorizontalHeight(n, h, i) ==
    LET paneHeight == GoDiv(h, n)
        remainder  == GoMod(h, n)
    IN  IF i < remainder THEN paneHeight + 1 ELSE paneHeight

\* App.renderVerticalLayout of layout.go, currentWidth: the width of the
\* pane at index i (from 0) of n panes sharing the width w.
VerticalWidth(n, w, i) ==
    LET paneWidth == GoDiv(w, n)
        remainder == GoMod(w, n)
    IN  IF i < remainder THEN paneWidth + 1 ELSE paneWidth

\* The panes of the App rendered one after the other, the pane at index i
\* (from 0) of a.paneOrder with the size sizeOf[i].
RECURSIVE RenderPanes(_, _, _)
RenderPanes(app, sizeOf, i) ==
    IF i >= Len(app.paneOrder) THEN app
    ELSE RenderPanes(
            [app EXCEPT !.panes[app.paneOrder[i + 1]] =
                Render(@, sizeOf[i].width, sizeOf[i].height,
                       app.filterLevel, app.followMode)],
            sizeOf, i + 1)

\* App.renderHorizontalLayout of layout.go: the panes one above the other,
\* each as wide as the window; the height is shared out, the first
\* height % n panes one row taller.
RenderHorizontalLayout(app, w, h) ==
    LET n == Len(app.paneOrder)
    IN  RenderPanes(app,
                    [i \in 0..(n - 1) |->
                        [width |-> w, height |-> HorizontalHeight(n, h, i)]],
                    0)

\* App.renderVerticalLayout of layout.go: the panes side by side, each with
\* the whole height; the width is shared out in the same way.
RenderVerticalLayout(app, w, h) ==
    LET n == Len(app.paneOrder)
    IN  RenderPanes(app,
                    [i \in 0..(n - 1) |->
                        [width |-> VerticalWidth(n, w, i), height |-> h]],
                    0)

\* App.renderGridLayout of layout.go, cols: int(math.Ceil(math.Sqrt(n))), the
\* least c with c * c >= n.
GridCols(n) == CHOOSE c \in 1..n : c * c >= n /\ (c - 1) * (c - 1) < n

\* The rows of a grid that divides without rounding up: a plausible slip.
GridRowsRoundedDown(n) == n \div GridCols(n)

\* App.renderGridLayout of layout.go, rows: int(math.Ceil(n / cols)).
GridRows(n) == (n + GridCols(n) - 1) \div GridCols(n)

\* What an empty cell of the grid shows.
Blank == ""

\* App.renderGridLayout of layout.go, the two loops: the cells of the grid,
\* row by row, each with the name of the pane it shows or Blank.
GridCells(app) ==
    LET n    == Len(app.paneOrder)
        cols == GridCols(n)
        rows == GridRows(n)
    IN  [row \in 0..(rows - 1) |->
            [col \in 0..(cols - 1) |->
                LET paneIndex == row * cols + col
                IN  IF paneIndex >= n THEN Blank
                    ELSE app.paneOrder[paneIndex + 1]]]

\* App.renderGridLayout of layout.go: every pane is width / cols wide and
\* height / rows high.
RenderGridLayout(app, w, h) ==
    LET n == Len(app.paneOrder)
    IN  RenderPanes(app,
                    [i \in 0..(n - 1) |->
                        [width  |-> GoDiv(w, GridCols(n)),
                         height |-> GoDiv(h, GridRows(n))]],
                    0)

\* App.renderZoomedView.
RenderZoomedView(app, w, h) ==
    IF app.zoomedPane >= Len(app.paneOrder) THEN app
    ELSE [app EXCEPT !.panes[app.paneOrder[app.zoomedPane + 1]] =
             Render(@, w, h - 4, app.filterLevel, app.followMode)]

\* App.renderMultiPaneView with the layout methods of layout.go.
RenderMultiPaneView(app, w, h) ==
    CASE app.layout = LayoutHorizontal ->
            RenderHorizontalLayout(app, w, h - 4)
      [] app.layout = LayoutVertical ->
            RenderVerticalLayout(app, w, h - 4)
      [] app.layout = LayoutAutoGrid ->
            RenderGridLayout(app, w, h - 4)

\* App.View, as far as it changes the App, with a.width = w and
\* a.height = h: the Apps it can leave, each with the names of the panes it
\* has rendered.  The layout methods are defined twice, in layout.go, where
\* they render every pane, and at the end of app.go, where they return a
\* fixed text: the multi-pane view has either outcome.
View(app, w, h) ==
    IF Len(app.paneOrder) = 0 THEN {[app |-> app, rendered |-> {}]}
    ELSE IF app.viewMode = ViewZoomed
       THEN {[app |-> RenderZoomedView(app, w, h),
              rendered |-> IF app.zoomedPane >= Len(app.paneOrder) THEN {}
                           ELSE {app.paneOrder[app.zoomedPane + 1]}]}
    ELSE {[app |-> RenderMultiPaneView(app, w, h),
           rendered |-> Range(app.paneOrder)],
          [app |-> app, rendered |-> {}]}

\* NewApp.
NewApp ==
    [panes         |-> NoPanes,
     paneOrder     |-> <<>>,
     layout        |-> LayoutVertical,
     viewMode      |-> ViewMultiPane,
     focusedPane   |-> 0,
     zoomedPane    |-> 0,
     searchMode    |-> SearchNone,
     searchQuery   |-> <<>>,
     searchResults |-> <<>>,
     filterLevel   |-> LogLevelDebug,
     followMode    |-> TRUE,
     paused        |-> FALSE]

(***************************************************************************)
(* cmd/logflow/main.go, internal/ipc/client.go, internal/ipc/protocol.go   *)
(* and internal/sources: a process started with the flags --source,        *)
(* --docker and --podman, and what it writes to its connection.            *)
(***************************************************************************)
\* The values of the three flags; "" is a flag that was not given.
FlagSets ==
    [sourceName      : {"", "redis"},
     dockerContainer : {"", "redis-container"},
     podmanContainer : {"", "postgres-dev"}]

\* runDashboard has not been called.
NoFeeder == [fn |-> "", containerType |-> "", containerID |-> ""]

\* runDashboard: the function it calls, with the arguments it passes.
RunDashboard(f) ==
    IF f.sourceName # ""
       THEN [fn |-> "runSourceFeeder", containerType |-> "",
             containerID |-> ""]
    ELSE IF f.dockerContainer # ""
       THEN [fn |-> "runContainerFeeder", containerType |-> "docker",
             containerID |-> f.dockerContainer]
    ELSE IF f.podmanContainer # ""
       THEN [fn |-> "runContainerFeeder", containerType |-> "podman",
             containerID |-> f.podmanContainer]
    ELSE [fn |-> "startTUIDashboard", containerType |-> "",
          containerID |-> ""]

\* NewSourceInitMessage.
NewSourceInitMessage(name, sourceType) ==
    [Type |-> "source_init", SourceInfo |-> [Name |-> name, Type |-> sourceType]]

\* NewLogMessage.
NewLogMessage(entry) == [Type |-> "log", LogEntry |-> entry]

\* Client.SendMessage: conn.Write delivers the message on an open
\* connection and returns an error on one its peer has closed.
SendMessage(wire, c, msg) ==
    IF c = "open" THEN [wire |-> Append(wire, msg), err |-> FALSE]
    ELSE [wire |-> wire, err |-> TRUE]

\* The non-empty lines the origin of a feeder produces.
FeederLines ==
    { PlainLine(<<"Warning">>),
      PlainLine(<<"stderr", " ", "ok">>),
      JsonLine(("msg" :> JsonString("boom")) @@ ("level" :> JsonString("error"))) }

\* The instant the container runtime wrote in front of a line.
ContainerStamp == 7

\* DockerSource.streamPipe and PodmanSource.streamPipe, from the line to the
\* entry sent.  stamped: the line starts with an RFC3339Nano instant and a
\* space, which are taken off; otherwise the whole line is the content and
\* the instant is time.Now().
ContainerEntry(name, containerID, stream, stamped, line) ==
    LET entry == NewLogEntry(name, line)
    IN  [entry EXCEPT
           !.Timestamp = IF stamped THEN ContainerStamp ELSE Now,
           !.Metadata = ("stream" :> JsonString(stream))
                           @@ ("container_id" :> JsonString(containerID))
                           @@ @]

(***************************************************************************)
(* cmd/logflow/main.go and internal/ipc/server.go: the dashboard processes *)
(* of one host and the connections made to them.                           *)
(***************************************************************************)
\* The dashboard processes started on the host.
Dashboards == {"d1", "d2"}

\* A connection nobody has dialled yet.  dash is the dashboard whose listener
\* the dial reached; hs is where the connection is on the server side
\* ("backlog": dialled, not yet returned by Accept; "started": handleClient
\* runs, not yet registered; "registered": in Server.clients, scanning;
\* "returned": handleClient has returned; "reset": never accepted); open is
\* whether the server's descriptor of the connection is open.
NoConn == [dash |-> "none", hs |-> "none", open |-> FALSE]

\* The connections dashboard d has accepted.
AcceptedBy(d) ==
    {c \in Conns : conn[c].dash = d
                     /\ conn[c].hs \in {"started", "registered", "returned"}}

(***************************************************************************)
(* The states each specification starts from, and holds the variables of   *)
(* the other specifications at.                                            *)
(***************************************************************************)
\* A buffer nobody uses.
BufIdle ==
    /\ buf = NewBuffer(1)
    /\ hist = <<>>
    /\ cleared = FALSE
    /\ since = <<>>

\* NewServer and NewApp have returned; no connection is accepted yet.
PipeIdle ==
    /\ hstate = [c \in Conns |-> "none"]
    /\ nlog = [c \in Conns |-> 0]
    /\ last = [conn |-> "none", kind |-> "none"]
    /\ logChan = <<>>
    /\ pending = <<>>
    /\ panes = NoPanes
    /\ paneOrder = <<>>
    /\ focusedPane = 0
    /\ paused = FALSE
    /\ discarded = {}
    /\ seen = <<>>

\* A buffer with no goroutine in any of its methods.
ReadIdle ==
    /\ mutex = FreeMutex
    /\ wpc = "idle"
    /\ warg = NoCall
    /\ rpc = "idle"
    /\ rop = NoCall
    /\ rres = <<>>
    /\ nadds = 0
    /\ logical = <<>>
    /\ allowed = {}

\* NewApp has returned and the program runs; no key has been pressed.
KeyIdle ==
    /\ layout = NewApp.layout
    /\ viewMode = NewApp.viewMode
    /\ zoomedPane = NewApp.zoomedPane
    /\ searchMode = NewApp.searchMode
    /\ searchQuery = NewApp.searchQuery
    /\ searchResults = NewApp.searchResults
    /\ filterLevel = NewApp.filterLevel
    /\ followMode = NewApp.followMode
    /\ tstate = "running"
    /\ nkeys = 0

\* No window size has been received and no entry has arrived.
RenderIdle ==
    /\ width = 0
    /\ height = 0
    /\ nlogs = 0

\* The process has been started with no flag and main has not run.
FeedIdle ==
    /\ flags = [sourceName |-> "", dockerContainer |-> "",
                podmanContainer |-> ""]
    /\ fpc = "runDashboard"
    /\ feeder = NoFeeder
    /\ fconn = "none"
    /\ fwire = <<>>

\* No entry has been built.
NoEntry ==
    [Timestamp |-> 0, Source |-> "", Level |-> "", Content |-> <<>>,
     Raw |-> <<>>, Metadata |-> NoFields]

\* NewLogEntry has not been called.
ParseIdle ==
    /\ pline = PlainLine(<<>>)
    /\ pentry = NoEntry

\* No dashboard process has been started and no file is at SocketPath.
LifeIdle ==
    /\ sockFile = "none"
    /\ dpc = [d \in Dashboards |-> "off"]
    /\ listener = [d \in Dashboards |-> "none"]
    /\ quit = [d \in Dashboards |-> FALSE]
    /\ apc = [d \in Dashboards |-> "none"]
    /\ cpc = [d \in Dashboards |-> "idle"]
    /\ clients = [d \in Dashboards |-> {}]
    /\ conn = [c \in Conns |-> NoConn]

(***************************************************************************)
(* SpecBuffer: one Buffer, constructed with a capacity in 1..MaxSize, then *)
(* driven by a single caller.                                              *)
(***************************************************************************)
BufferInit ==
    /\ \E size \in 1..MaxSize : buf = NewBuffer(size)
    /\ hist = <<>>
    /\ cleared = FALSE
    /\ since = <<>>
    /\ PipeIdle
    /\ LifeIdle
    /\ ReadIdle
    /\ KeyIdle
    /\ RenderIdle
    /\ FeedIdle
    /\ ParseIdle

BufferAdd ==
    /\ Len(hist) < MaxAdds
    /\ \E entry \in BufferEntries :
          /\ buf' = Add(buf, entry)
          /\ hist' = Append(hist, entry)
          /\ since' = Append(since, entry)
    /\ UNCHANGED <<cleared, nonBufVars>>

BufferClear ==
    /\ buf' = Clear(buf)
    /\ cleared' = TRUE
    /\ since' = <<>>
    /\ UNCHANGED <<hist, nonBufVars>>

BufferNext == BufferAdd \/ BufferClear

SpecBuffer == BufferInit /\ [][BufferNext]_vars

(***************************************************************************)
(* SpecReaders: one Buffer shared by the writer goroutine (the log         *)
(* consumer, calling Add and Clear) and a reader goroutine (the render     *)
(* path, calling GetAll, Filter, Search and Count).  Each lock operation   *)
(* and each field access of the writer is a step of its own.               *)
(***************************************************************************)
\* The calls the writer makes.
WriterCalls ==
    {[name |-> "Add", entry |-> e] :
        e \in {e \in BufferEntries : e.Level \in {LogLevelError, LogLevelInfo}}}
       \cup {[name |-> "Clear"]}

\* The calls the reader makes.
ReaderCalls ==
    {[name |-> "GetAll"], [name |-> "Count"],
     [name |-> "Filter", level |-> LogLevelWarn],
     [name |-> "Search", term |-> <<"R">>]}

\* The logical content after a write call on a buffer of the given capacity
\* holding the given content.
ContentAfter(content, call, size) ==
    IF call.name = "Add" THEN LastN(Append(content, call.entry), size) ELSE <<>>

\* What a reader call returns when it observes the given logical content.
Observed(call, content) ==
    CASE call.name = "GetAll" -> content
      [] call.name = "Count"  -> Len(content)
      [] call.name = "Filter" -> FilterEntries(content, call.level)
      [] call.name = "Search" -> SearchEntries(content, call.term)

ReadersInit ==
    /\ \E size \in 1..ReaderMaxSize : buf = NewBuffer(size)
    /\ hist = <<>>
    /\ cleared = FALSE
    /\ since = <<>>
    /\ PipeIdle
    /\ LifeIdle
    /\ ReadIdle
    /\ KeyIdle
    /\ RenderIdle
    /\ FeedIdle
    /\ ParseIdle

\* Whether a reader call is in progress.
ReaderActive == rpc \notin {"idle", "done"}

\* The writer calls Add(entry) or Clear().
WriterCall ==
    /\ wpc = "idle"
    /\ \E call \in WriterCalls :
          /\ call.name = "Add" => nadds < ReaderMaxAdds
          /\ warg' = call
          /\ nadds' = IF call.name = "Add" THEN nadds + 1 ELSE nadds
          /\ allowed' = IF ReaderActive
                           THEN allowed \cup {ContentAfter(logical, call, buf.size)}
                           ELSE allowed
    /\ wpc' = "lock"
    /\ UNCHANGED <<buf, mutex, rpc, rop, rres, logical, nonReadVars>>

\* b.mutex.Lock().
WriterLock ==
    /\ wpc = "lock"
    /\ CanLock(mutex)
    /\ mutex' = [mutex EXCEPT !.writer = TRUE]
    /\ wpc' = IF warg.name = "Add" THEN "store" ELSE "clear_count"
    /\ UNCHANGED <<buf, warg, rpc, rop, rres, nadds, logical, allowed, nonReadVars>>

\* Add: b.entries[b.index] = entry.
AddStore ==
    /\ wpc = "store"
    /\ buf' = [buf EXCEPT !.entries = [buf.entries EXCEPT ![buf.index] = warg.entry]]
    /\ wpc' = "advance"
    /\ UNCHANGED <<mutex, warg, rpc, rop, rres, nadds, logical, allowed, nonReadVars>>

\* Add: b.index = (b.index + 1) % b.size.
AddAdvance ==
    /\ wpc = "advance"
    /\ buf' = [buf EXCEPT !.index = (buf.index + 1) % buf.size]
    /\ wpc' = "count"
    /\ UNCHANGED <<mutex, warg, rpc, rop, rres, nadds, logical, allowed, nonReadVars>>

\* Add: if b.count < b.size { b.count++ }.
AddCount ==
    /\ wpc = "count"
    /\ buf' = [buf EXCEPT !.count = IF buf.count < buf.size THEN @ + 1 ELSE @]
    /\ wpc' = "unlock"
    /\ UNCHANGED <<mutex, warg, rpc, rop, rres, nadds, logical, allowed, nonReadVars>>

\* Clear: b.count = 0.
ClearCount ==
    /\ wpc = "clear_count"
    /\ buf' = [buf EXCEPT !.count = 0]
    /\ wpc' = "clear_index"
    /\ UNCHANGED <<mutex, warg, rpc, rop, rres, nadds, logical, allowed, nonReadVars>>

\* Clear: b.index = 0.
ClearIndex ==
    /\ wpc = "clear_index"
    /\ buf' = [buf EXCEPT !.index = 0]
    /\ wpc' = "unlock"
    /\ UNCHANGED <<mutex, warg, rpc, rop, rres, nadds, logical, allowed, nonReadVars>>

\* The deferred b.mutex.Unlock(); the call returns.
WriterUnlock ==
    /\ wpc = "unlock"
    /\ mutex' = [mutex EXCEPT !.writer = FALSE]
    /\ logical' = ContentAfter(logical, warg, buf.size)
    /\ warg' = NoCall
    /\ wpc' = "idle"
    /\ UNCHANGED <<buf, rpc, rop, rres, nadds, allowed, nonReadVars>>

\* The reader calls GetAll(), Count(), Filter(level) or Search(term).
ReaderCall ==
    /\ ~ReaderActive
    /\ \E call \in ReaderCalls : rop' = call
    /\ rres' = <<>>
    /\ allowed' = {logical} \cup
                     (IF wpc # "idle"
                         THEN {ContentAfter(logical, warg, buf.size)} ELSE {})
    /\ rpc' = "rlock"
    /\ UNCHANGED <<buf, mutex, wpc, warg, nadds, logical, nonReadVars>>

\* b.mutex.RLock(), in GetAll (which Filter and Search call) and in Count.
ReaderRLock ==
    /\ rpc = "rlock"
    /\ CanRLock(mutex)
    /\ mutex' = [mutex EXCEPT !.readers = @ + 1]
    /\ rpc' = "read"
    /\ UNCHANGED <<buf, wpc, warg, rop, rres, nadds, logical, allowed, nonReadVars>>

\* The body of GetAll, or of Count, with the read lock held.
ReaderRead ==
    /\ rpc = "read"
    /\ rres' = IF rop.name = "Count" THEN Count(buf) ELSE GetAll(buf)
    /\ rpc' = "runlock"
    /\ UNCHANGED <<buf, mutex, wpc, warg, rop, nadds, logical, allowed, nonReadVars>>

\* The deferred b.mutex.RUnlock().
ReaderRUnlock ==
    /\ rpc = "runlock"
    /\ mutex' = [mutex EXCEPT !.readers = @ - 1]
    /\ rpc' = "return"
    /\ UNCHANGED <<buf, wpc, warg, rop, rres, nadds, logical, allowed, nonReadVars>>

\* The call returns: GetAll and Count return what they read, Filter and
\* Search run their loop over the snapshot GetAll gave them.
ReaderReturn ==
    /\ rpc = "return"
    /\ rres' = CASE rop.name = "Filter" -> FilterEntries(rres, rop.level)
                 [] rop.name = "Search" -> SearchEntries(rres, rop.term)
                 [] OTHER               -> rres
    /\ rpc' = "done"
    /\ UNCHANGED <<buf, mutex, wpc, warg, rop, nadds, logical, allowed, nonReadVars>>

ReadersNext ==
    \/ WriterCall
    \/ WriterLock
    \/ AddStore
    \/ AddAdvance
    \/ AddCount
    \/ ClearCount
    \/ ClearIndex
    \/ WriterUnlock
    \/ ReaderCall
    \/ ReaderRLock
    \/ ReaderRead
    \/ ReaderRUnlock
    \/ ReaderReturn

SpecReaders == ReadersInit /\ [][ReadersNext]_vars

(***************************************************************************)
(* Spec: the ingestion pipeline.  Peers write lines on their connections;  *)
(* each connection's handleClient goroutine scans them and feeds logChan;  *)
(* listenForLogs moves entries from logChan to the event loop, one at a    *)
(* time; the event loop runs Update for log messages and key presses.      *)
(***************************************************************************)
Init ==
    /\ BufIdle
    /\ PipeIdle
    /\ LifeIdle
    /\ ReadIdle
    /\ KeyIdle
    /\ RenderIdle
    /\ FeedIdle
    /\ ParseIdle

\* acceptConnections accepts connection c and starts handleClient, which
\* reaches its scan loop.
Accept(c) ==
    /\ hstate[c] = "none"
    /\ hstate' = [hstate EXCEPT ![c] = "scanning"]
    /\ UNCHANGED <<nlog, last, logChan, appVars, nonPipeVars>>

\* The log entries all peers together have sent so far.
TotalSent == nlog["c1"] + nlog["c2"]

\* A plausible slip in handleClient: the log_entry of a log message is
\* queued without the nil check.
HandleClientNoNilCheck(c, kind) ==
    /\ hstate[c] = "scanning"
    /\ kind = "log" => TotalSent < MaxSend
    /\ hstate' = [hstate EXCEPT ![c] = IF kind \in ScannedKinds
                                         THEN "scanning" ELSE "closed"]
    /\ nlog' = [nlog EXCEPT ![c] = IF kind = "log" THEN @ + 1 ELSE @]
    /\ logChan' = CASE kind = "log" ->
                          ChanSend(logChan, PeerEntry(c, nlog[c] + 1))
                     [] kind = "log_nil" -> ChanSend(logChan, ZeroEntry)
                     [] OTHER -> logChan
    /\ UNCHANGED <<appVars, nonPipeVars>>

\* One round of handleClient's loop on connection c, meeting a line of the
\* given kind.  Scan returning false ends the loop and the deferred
\* conn.Close() runs; an unmarshal error continues; a log message with an
\* entry is sent to logChan without blocking; every other type does nothing.
\* (The ghost variable last is set by the specification that uses the action.)
HandleClient(c, kind) ==
    /\ hstate[c] = "scanning"
    /\ kind = "log" => TotalSent < MaxSend
    /\ hstate' = [hstate EXCEPT ![c] = IF kind \in ScannedKinds
                                         THEN "scanning" ELSE "closed"]
    /\ nlog' = [nlog EXCEPT ![c] = IF kind = "log" THEN @ + 1 ELSE @]
    /\ logChan' = IF kind = "log"
                     THEN ChanSend(logChan, PeerEntry(c, nlog[c] + 1))
                     ELSE logChan
    /\ UNCHANGED <<appVars, nonPipeVars>>

\* listenForLogs: receive the oldest entry from the channel; the goroutine
\* holds it until p.Send hands it to the event loop.
ListenForLogs ==
    /\ pending = <<>>
    /\ logChan # <<>>
    /\ pending' = <<ChanRecv(logChan).entry>>
    /\ logChan' = ChanRecv(logChan).rest
    /\ UNCHANGED <<hstate, nlog, last, panes, paneOrder, focusedPane, paused,
                   discarded, seen, nonPipeVars>>

\* A plausible slip in handleLogEntry: the paused flag is not consulted.
HandleLogEntryIgnoringPause ==
    /\ pending # <<>>
    /\ LET entry == pending[1]
           found == PanesAfterLookup(panes, entry.Source)
       IN  /\ paneOrder' = OrderAfterLookup(panes, paneOrder, entry.Source)
           /\ panes' = [found EXCEPT ![entry.Source] =
                                         AddEntry(@, ConvertEntry(entry))]
           /\ discarded' = IF paused THEN discarded \cup {entry} ELSE discarded
           /\ seen' = IF \E i \in 1..Len(seen) : seen[i] = entry.Source
                         THEN seen ELSE Append(seen, entry.Source)
    /\ pending' = <<>>
    /\ UNCHANGED <<serverVars, focusedPane, paused, nonPipeVars>>

\* Update on a LogEntryMsg: handleLogEntry looks the pane up or creates it,
\* converts the entry, and adds it to the pane unless the dashboard is paused.
HandleLogEntry ==
    /\ pending # <<>>
    /\ LET entry == pending[1]
           found == PanesAfterLookup(panes, entry.Source)
       IN  /\ paneOrder' = OrderAfterLookup(panes, paneOrder, entry.Source)
           /\ panes' = IF ~paused
                          THEN [found EXCEPT ![entry.Source] =
                                                AddEntry(@, ConvertEntry(entry))]
                          ELSE found
           /\ discarded' = IF paused THEN discarded \cup {entry} ELSE discarded
           /\ seen' = IF \E i \in 1..Len(seen) : seen[i] = entry.Source
                         THEN seen ELSE Append(seen, entry.Source)
    /\ pending' = <<>>
    /\ UNCHANGED <<serverVars, focusedPane, paused, nonPipeVars>>

\* handleKeyPress on " " outside search mode: the pause toggle.
KeyPause ==
    /\ paused' = ~paused
    /\ UNCHANGED <<serverVars, pending, panes, paneOrder, focusedPane,
                   discarded, seen, nonPipeVars>>

\* handleKeyPress on "c" outside search mode: clearFocusedPane.
KeyClear ==
    /\ panes' = IF Len(paneOrder) > 0
                   THEN [panes EXCEPT ![paneOrder[focusedPane + 1]] = PaneClear(@)]
                   ELSE panes
    /\ UNCHANGED <<serverVars, pending, paneOrder, focusedPane, paused,
                   discarded, seen, nonPipeVars>>

Next ==
    \/ \E c \in Conns : Accept(c)
    \/ \E c \in Conns, kind \in LineKinds :
          HandleClient(c, kind) /\ UNCHANGED last
    \/ ListenForLogs
    \/ HandleLogEntry
    \/ KeyPause
    \/ KeyClear

Spec == Init /\ [][Next]_vars

(***************************************************************************)
(* SpecServer: the same pipeline with no key pressed, and with the ghost   *)
(* variable last recording the line each handler met last.                 *)
(***************************************************************************)
ServerNext ==
    \/ \E c \in Conns : Accept(c)
    \/ \E c \in Conns, kind \in LineKinds :
          HandleClient(c, kind) /\ last' = [conn |-> c, kind |-> kind]
    \/ ListenForLogs
    \/ HandleLogEntry

SpecServer == Init /\ [][ServerNext]_vars

(***************************************************************************)
(* SpecLifecycle: dashboard processes on one host.  Each runs              *)
(* startTUIDashboard: NewServer (remove the file, listen, start the accept *)
(* loop), then the TUI until the quit key, while a goroutine waits for     *)
(* SIGINT/SIGTERM to call Server.Close and exit.  Clients dial the path.   *)
(***************************************************************************)
LifeInit ==
    /\ BufIdle
    /\ PipeIdle
    /\ LifeIdle
    /\ ReadIdle
    /\ KeyIdle
    /\ RenderIdle
    /\ FeedIdle
    /\ ParseIdle

\* NewServer, os.Remove(SocketPath): whatever file is at the path is removed.
NewServerRemove(d) ==
    /\ dpc[d] = "off"
    /\ sockFile' = "none"
    /\ dpc' = [dpc EXCEPT ![d] = "removed"]
    /\ UNCHANGED <<listener, quit, apc, cpc, clients, conn, nonLifeVars>>

\* NewServer, net.Listen("unix", SocketPath): binding creates the file and
\* fails when a file is at the path; on success the accept loop is started and
\* startTUIDashboard goes on to run the TUI, on failure it exits (log.Fatalf).
NewServerListen(d) ==
    /\ dpc[d] = "removed"
    /\ IF sockFile = "none"
          THEN /\ sockFile' = d
               /\ listener' = [listener EXCEPT ![d] = "open"]
               /\ apc' = [apc EXCEPT ![d] = "select"]
               /\ dpc' = [dpc EXCEPT ![d] = "running"]
          ELSE /\ dpc' = [dpc EXCEPT ![d] = "failed"]
               /\ UNCHANGED <<sockFile, listener, apc>>
    /\ UNCHANGED <<quit, cpc, clients, conn, nonLifeVars>>

\* NewClient, net.Dial("unix", SocketPath): the connection reaches the
\* listener the file names and waits there to be accepted.
Dial(c) ==
    /\ conn[c].hs = "none"
    /\ sockFile \in Dashboards
    /\ listener[sockFile] = "open"
    /\ conn' = [conn EXCEPT ![c] = [dash |-> sockFile, hs |-> "backlog",
                                    open |-> FALSE]]
    /\ UNCHANGED <<sockFile, dpc, listener, quit, apc, cpc, clients, nonLifeVars>>

\* acceptConnections, the select: return when quit is closed, otherwise take
\* the default branch and call Accept.
AcceptSelect(d) ==
    /\ dpc[d] = "running"
    /\ apc[d] = "select"
    /\ apc' = [apc EXCEPT ![d] = IF quit[d] THEN "done" ELSE "accept"]
    /\ UNCHANGED <<sockFile, dpc, listener, quit, cpc, clients, conn, nonLifeVars>>

\* acceptConnections, Accept returns connection c: go s.handleClient(conn).
AcceptConn(d, c) ==
    /\ dpc[d] = "running"
    /\ apc[d] = "accept"
    /\ listener[d] = "open"
    /\ conn[c].dash = d
    /\ conn[c].hs = "backlog"
    /\ conn' = [conn EXCEPT ![c].hs = "started", ![c].open = TRUE]
    /\ apc' = [apc EXCEPT ![d] = "select"]
    /\ UNCHANGED <<sockFile, dpc, listener, quit, cpc, clients, nonLifeVars>>

\* acceptConnections, Accept fails on the closed listener: continue.
AcceptError(d) ==
    /\ dpc[d] = "running"
    /\ apc[d] = "accept"
    /\ listener[d] = "closed"
    /\ apc' = [apc EXCEPT ![d] = "select"]
    /\ UNCHANGED <<sockFile, dpc, listener, quit, cpc, clients, conn, nonLifeVars>>

\* handleClient, under the mutex: s.clients[conn] = client.
Register(c) ==
    /\ conn[c].hs = "started"
    /\ dpc[conn[c].dash] = "running"
    /\ clients' = [clients EXCEPT ![conn[c].dash] = @ \cup {c}]
    /\ conn' = [conn EXCEPT ![c].hs = "registered"]
    /\ UNCHANGED <<sockFile, dpc, listener, quit, apc, cpc, nonLifeVars>>

\* handleClient, scanner.Scan() returns false (the peer closed, the
\* connection was closed under it, or the line is too long): the deferred
\* functions delete the connection from s.clients and close it.
HandlerReturn(c) ==
    /\ conn[c].hs = "registered"
    /\ dpc[conn[c].dash] = "running"
    /\ clients' = [clients EXCEPT ![conn[c].dash] = @ \ {c}]
    /\ conn' = [conn EXCEPT ![c].hs = "returned", ![c].open = FALSE]
    /\ UNCHANGED <<sockFile, dpc, listener, quit, apc, cpc, nonLifeVars>>

\* The signal goroutine of startTUIDashboard receives SIGINT or SIGTERM:
\* app.Quit() does nothing, and Server.Close begins with close(s.quit).
CloseQuit(d) ==
    /\ dpc[d] = "running"
    /\ cpc[d] = "idle"
    /\ quit' = [quit EXCEPT ![d] = TRUE]
    /\ cpc' = [cpc EXCEPT ![d] = "quit_closed"]
    /\ UNCHANGED <<sockFile, dpc, listener, apc, clients, conn, nonLifeVars>>

\* Server.Close, under the mutex: conn.Close() for every key of s.clients.
CloseClients(d) ==
    /\ dpc[d] = "running"
    /\ cpc[d] = "quit_closed"
    /\ conn' = [c \in Conns |->
                  IF c \in clients[d] THEN [conn[c] EXCEPT !.open = FALSE]
                  ELSE conn[c]]
    /\ cpc' = [cpc EXCEPT ![d] = "conns_closed"]
    /\ UNCHANGED <<sockFile, dpc, listener, quit, apc, clients, nonLifeVars>>

\* Server.Close, s.listener.Close(): connections still waiting to be accepted
\* are reset, and the listener, made by net.Listen, unlinks the file at its
\* path, whichever listener the file belongs to.
CloseListener(d) ==
    /\ dpc[d] = "running"
    /\ cpc[d] = "conns_closed"
    /\ listener' = [listener EXCEPT ![d] = "closed"]
    /\ sockFile' = "none"
    /\ conn' = [c \in Conns |->
                  IF conn[c].dash = d /\ conn[c].hs = "backlog"
                     THEN [conn[c] EXCEPT !.hs = "reset"]
                     ELSE conn[c]]
    /\ cpc' = [cpc EXCEPT ![d] = "listener_closed"]
    /\ UNCHANGED <<dpc, quit, apc, clients, nonLifeVars>>

\* Server.Close, os.Remove(SocketPath), and Close returns.
CloseRemove(d) ==
    /\ dpc[d] = "running"
    /\ cpc[d] = "listener_closed"
    /\ sockFile' = "none"
    /\ cpc' = [cpc EXCEPT ![d] = "returned"]
    /\ UNCHANGED <<dpc, listener, quit, apc, clients, conn, nonLifeVars>>

\* The process of dashboard d ends: the operating system closes its listener
\* and its connections; files stay as they are.
ProcessExit(d) ==
    /\ dpc' = [dpc EXCEPT ![d] = "exited"]
    /\ listener' = [listener EXCEPT ![d] = "closed"]
    /\ conn' = [c \in Conns |->
                  IF conn[c].dash # d THEN conn[c]
                  ELSE IF conn[c].hs = "backlog"
                     THEN [conn[c] EXCEPT !.hs = "reset"]
                     ELSE [conn[c] EXCEPT !.open = FALSE]]
    /\ UNCHANGED <<sockFile, quit, apc, cpc, clients, nonLifeVars>>

\* The signal goroutine, after server.Close() has returned: os.Exit(0).
ExitAfterClose(d) ==
    /\ dpc[d] = "running"
    /\ cpc[d] = "returned"
    /\ ProcessExit(d)

\* handleKeyPress on "q" or "ctrl+c" returns tea.Quit: app.Run() returns nil,
\* startTUIDashboard returns and the process ends.
QuitKey(d) ==
    /\ dpc[d] = "running"
    /\ ProcessExit(d)

LifeNext ==
    \/ \E d \in Dashboards : NewServerRemove(d)
    \/ \E d \in Dashboards : NewServerListen(d)
    \/ \E c \in Conns : Dial(c)
    \/ \E d \in Dashboards : AcceptSelect(d)
    \/ \E d \in Dashboards, c \in Conns : AcceptConn(d, c)
    \/ \E d \in Dashboards : AcceptError(d)
    \/ \E c \in Conns : Register(c)
    \/ \E c \in Conns : HandlerReturn(c)
    \/ \E d \in Dashboards : CloseQuit(d)
    \/ \E d \in Dashboards : CloseClients(d)
    \/ \E d \in Dashboards : CloseListener(d)
    \/ \E d \in Dashboards : CloseRemove(d)
    \/ \E d \in Dashboards : ExitAfterClose(d)
    \/ \E d \in Dashboards : QuitKey(d)

SpecLifecycle == LifeInit /\ [][LifeNext]_vars

\* SpecLifecycle with the goroutines of every server scheduled again and
\* again: the accept loop, the handlers up to their scan loop, a handler
\* whose connection has been closed under it, and Server.Close once it has
\* begun.  Signals, dials, peers closing their end and the end of the
\* process may or may not happen.
SpecLifecycleFair ==
    /\ SpecLifecycle
    /\ \A d \in Dashboards :
          /\ WF_vars(AcceptSelect(d))
          /\ WF_vars(AcceptError(d))
          /\ WF_vars(CloseClients(d))
          /\ WF_vars(CloseListener(d))
          /\ WF_vars(CloseRemove(d))
    /\ \A c \in Conns :
          /\ WF_vars(Register(c))
          /\ WF_vars(~conn[c].open /\ HandlerReturn(c))

(***************************************************************************)
(* SpecKeys: the dashboard's event loop.  The tea.Program hands Update one *)
(* message at a time: a key press, or the first log entry of a source not  *)
(* seen before.  tea.Quit, returned by handleKeyPress, is a command: the   *)
(* program runs it beside the loop and ends when its QuitMsg comes up,     *)
(* after the messages that were ahead of it.                               *)
(***************************************************************************)
\* The sources whose entries arrive, in the order of their first entry.
KeySources == <<"web", "api", "db">>

\* The level of the entry of each source.
KeyLevels ==
    [source \in Range(KeySources) |->
        CASE source = "web" -> LogLevelError
          [] source = "api" -> LogLevelInfo
          [] source = "db"  -> LogLevelDebug]

\* The first entry of a source.
KeyEntry(source) == LogEntry(1, source, KeyLevels[source], <<"e">>, <<"e">>)

\* The App, as the record of its fields.
AppState ==
    [panes         |-> panes,
     paneOrder     |-> paneOrder,
     layout        |-> layout,
     viewMode      |-> viewMode,
     focusedPane   |-> focusedPane,
     zoomedPane    |-> zoomedPane,
     searchMode    |-> searchMode,
     searchQuery   |-> searchQuery,
     searchResults |-> searchResults,
     filterLevel   |-> filterLevel,
     followMode    |-> followMode,
     paused        |-> paused]

\* The fields of the App become those of app.
SetApp(app) ==
    /\ panes' = app.panes
    /\ paneOrder' = app.paneOrder
    /\ layout' = app.layout
    /\ viewMode' = app.viewMode
    /\ focusedPane' = app.focusedPane
    /\ zoomedPane' = app.zoomedPane
    /\ searchMode' = app.searchMode
    /\ searchQuery' = app.searchQuery
    /\ searchResults' = app.searchResults
    /\ filterLevel' = app.filterLevel
    /\ followMode' = app.followMode
    /\ paused' = app.paused

KeysInit ==
    /\ BufIdle
    /\ PipeIdle
    /\ LifeIdle
    /\ ReadIdle
    /\ KeyIdle
    /\ RenderIdle
    /\ FeedIdle
    /\ ParseIdle

\* Update on a tea.KeyMsg: handleKeyPress; a tea.Quit it returns is started.
KeyPress(key) ==
    /\ tstate # "done"
    /\ key \in {"q", "ctrl+c"} \/ nkeys < MaxKeys
    /\ LET r == HandleKeyPress(AppState, key)
       IN  /\ SetApp(r.app)
           /\ tstate' = IF r.cmd = "tea.Quit" THEN "quitting" ELSE tstate
    /\ nkeys' = IF key \in {"q", "ctrl+c"} THEN nkeys ELSE nkeys + 1
    /\ UNCHANGED nonKeyVars

\* Update on a LogEntryMsg: handleLogEntry.
LogArrives ==
    /\ tstate # "done"
    /\ Len(paneOrder) < Len(KeySources)
    /\ SetApp(AppHandleLogEntry(AppState, KeyEntry(KeySources[Len(paneOrder) + 1])))
    /\ UNCHANGED <<tstate, nkeys, nonKeyVars>>

\* The event loop receives the QuitMsg and returns: Program.Run ends.
ProgramQuit ==
    /\ tstate = "quitting"
    /\ tstate' = "done"
    /\ UNCHANGED <<appFields, nkeys, nonKeyVars>>

KeysNext ==
    \/ \E key \in Keys : KeyPress(key)
    \/ LogArrives
    \/ ProgramQuit

SpecKeys == KeysInit /\ [][KeysNext]_vars

\* The program runs every command it is handed and the loop reads every
\* message sent to it.
SpecKeysFair == SpecKeys /\ WF_vars(ProgramQuit)

(***************************************************************************)
(* SpecRender: the event loop with one source.  The program calls Update   *)
(* on a message and then View; tstate is "rendering" between the two.  The *)
(* messages are the entries of the source, the keys that change what a     *)
(* pane shows, and the sizes of the window.                                *)
(***************************************************************************)
\* The heights the window takes.
WindowHeights == {5, 7, 8}

\* The width the window takes.
WindowWidths == {20}

\* The keys pressed: the filter set to ERROR and to DEBUG, follow mode, the
\* scroll keys, clear, zoom and layout.
RenderKeys == {"e", "a", "f", "j", "k", "c", "z", "l"}

\* The levels of the entries of the source.
RenderLevels == {LogLevelError, LogLevelDebug}

\* The entry that arrives when n entries have arrived: one source sends, so
\* there is one pane, which every layout gives the whole content height.
RenderEntry(n, level) == LogEntry(n + 1, "web", level, <<"e">>, <<"e">>)

RenderInit ==
    /\ BufIdle
    /\ PipeIdle
    /\ LifeIdle
    /\ ReadIdle
    /\ KeyIdle
    /\ RenderIdle
    /\ FeedIdle
    /\ ParseIdle

\* Update on a tea.KeyMsg.
RenderKey(key) ==
    /\ tstate = "running"
    /\ SetApp(HandleKeyPress(AppState, key).app)
    /\ tstate' = "rendering"
    /\ UNCHANGED <<width, height, nlogs, nonRenderVars>>

\* Update on a LogEntryMsg.
RenderLog(level) ==
    /\ tstate = "running"
    /\ nlogs < MaxRenderLogs
    /\ SetApp(AppHandleLogEntry(AppState, RenderEntry(nlogs, level)))
    /\ nlogs' = nlogs + 1
    /\ tstate' = "rendering"
    /\ UNCHANGED <<width, height, nonRenderVars>>

\* Update on a tea.WindowSizeMsg.
RenderResize(w, h) ==
    /\ tstate = "running"
    /\ width' = w
    /\ height' = h
    /\ tstate' = "rendering"
    /\ UNCHANGED <<appFields, nlogs, nonRenderVars>>

\* View, after Update has returned.
RenderView ==
    /\ tstate = "rendering"
    /\ \E v \in View(AppState, width, height) : SetApp(v.app)
    /\ tstate' = "running"
    /\ UNCHANGED <<width, height, nlogs, nonRenderVars>>

RenderNext ==
    \/ \E key \in RenderKeys : RenderKey(key)
    \/ \E level \in RenderLevels : RenderLog(level)
    \/ \E w \in WindowWidths, h \in WindowHeights : RenderResize(w, h)
    \/ RenderView

SpecRender == RenderInit /\ [][RenderNext]_vars

(***************************************************************************)
(* SpecConsume: the pipeline from the connections to the panes while keys  *)
(* move the dashboard between its search modes and view modes and pause    *)
(* it.  listenForLogs and the event loop are scheduled again and again.    *)
(***************************************************************************)
\* The connection that is made.
ConsumeConn == "c1"

\* The lines a handler meets: log messages and the end of the connection.
ConsumeKinds == {"log", "eof"}

\* The keys pressed: pause, the two search modes, zoom, and the two keys
\* that leave a search mode.
ConsumeKeys == {" ", "/", "?", "z", "esc", "enter"}

\* Update on a tea.KeyMsg.  Nothing is typed into the query.
ConsumeKey(key) ==
    /\ searchMode # SearchNone => key \in {"esc", "enter"}
    /\ SetApp(HandleKeyPress(AppState, key).app)
    /\ UNCHANGED <<serverVars, pending, discarded, seen, tstate, nkeys,
                   bufVars, lifeVars, readVars, feedVars, parseVars,
                   renderVars>>

ConsumeNext ==
    \/ Accept(ConsumeConn)
    \/ \E kind \in ConsumeKinds :
          HandleClient(ConsumeConn, kind) /\ UNCHANGED last
    \/ ListenForLogs
    \/ HandleLogEntry
    \/ \E key \in ConsumeKeys : ConsumeKey(key)

SpecConsume ==
    /\ Init
    /\ [][ConsumeNext]_vars
    /\ WF_vars(ListenForLogs)
    /\ WF_vars(HandleLogEntry)

(***************************************************************************)
(* SpecLayout: the event loop of SpecRender with several sources, each     *)
(* sending one entry, the layout key and windows of several sizes.         *)
(***************************************************************************)
\* The sources, in the order their first entries arrive.
LayoutSources == <<"web", "api", "db", "cache", "auth", "queue", "mail">>

\* The widths and the heights the window takes; the content is 4 rows
\* lower than the window.
LayoutWidths == {7, 10}

LayoutHeights == {4, 11, 13}

\* The first entry of the source that opens pane number n + 1.
LayoutEntry(n) == LogEntry(n + 1, LayoutSources[n + 1], LogLevelInfo, <<"e">>, <<"e">>)

LayoutInit == RenderInit

\* Update on the LogEntryMsg of a new source.
LayoutLog ==
    /\ tstate = "running"
    /\ nlogs < MaxPanes
    /\ nlogs < Len(LayoutSources)
    /\ SetApp(AppHandleLogEntry(AppState, LayoutEntry(nlogs)))
    /\ nlogs' = nlogs + 1
    /\ tstate' = "rendering"
    /\ UNCHANGED <<width, height, nonRenderVars>>

LayoutNext ==
    \/ LayoutLog
    \/ RenderKey("l")
    \/ \E w \in LayoutWidths, h \in LayoutHeights : RenderResize(w, h)
    \/ RenderView

SpecLayout == LayoutInit /\ [][LayoutNext]_vars

(***************************************************************************)
(* SpecFeeder: one logflow process from main to its exit, started with any *)
(* combination of the three flags.  The dashboard it dials may be absent,  *)
(* and may close the connection at any time.                               *)
(***************************************************************************)
FeederInit ==
    /\ BufIdle
    /\ PipeIdle
    /\ LifeIdle
    /\ ReadIdle
    /\ KeyIdle
    /\ RenderIdle
    /\ ParseIdle
    /\ flags \in FlagSets
    /\ fpc = "runDashboard"
    /\ feeder = NoFeeder
    /\ fconn = "none"
    /\ fwire = <<>>

\* The log messages written so far.
LogsWritten == Len(SelectSeq(fwire, LAMBDA msg : msg.Type = "log"))

\* runDashboard.
FeederRunDashboard ==
    /\ fpc = "runDashboard"
    /\ feeder' = RunDashboard(flags)
    /\ fpc' = IF feeder'.fn = "startTUIDashboard" THEN "tui" ELSE "NewClient"
    /\ UNCHANGED <<flags, fconn, fwire, nonFeedVars>>

\* ipc.NewClient: net.Dial succeeds, or fails and log.Fatalf ends the
\* process.
FeederNewClient(ok) ==
    /\ fpc = "NewClient"
    /\ fconn' = IF ok THEN "open" ELSE "none"
    /\ fpc' = IF ok THEN "InitSource" ELSE "fatal"
    /\ UNCHANGED <<flags, feeder, fwire, nonFeedVars>>

\* client.InitSource(sourceName, "pipe") in runSourceFeeder and
\* client.InitSource(sourceName, containerType) in runContainerFeeder; an
\* error ends the process in log.Fatalf.
FeederInitSource ==
    /\ fpc = "InitSource"
    /\ LET sourceType == IF feeder.fn = "runSourceFeeder" THEN "pipe"
                         ELSE feeder.containerType
           sent == SendMessage(fwire, fconn,
                               NewSourceInitMessage(flags.sourceName, sourceType))
       IN  /\ fwire' = sent.wire
           /\ fpc' = IF sent.err THEN "fatal"
                     ELSE IF feeder.fn = "runSourceFeeder" THEN "Stream"
                     ELSE "Start"
           /\ fconn' = IF sent.err THEN "closed" ELSE fconn
    /\ UNCHANGED <<flags, feeder, nonFeedVars>>

\* DockerSource.Stream and PodmanSource.Stream up to cmd.Start: the command
\* runs, or Stream returns the error and log.Fatalf ends the process.
FeederStart(ok) ==
    /\ fpc = "Start"
    /\ fpc' = IF ok THEN "Stream" ELSE "fatal"
    /\ fconn' = IF ok THEN fconn ELSE "closed"
    /\ UNCHANGED <<flags, feeder, fwire, nonFeedVars>>

\* PipeSource.Stream, one turn of the loop on a non-empty line: the entry is
\* built and sent; an error of SendLog is returned and log.Fatalf ends the
\* process.
FeederPipeLine(line) ==
    /\ fpc = "Stream"
    /\ feeder.fn = "runSourceFeeder"
    /\ fconn = "open" => LogsWritten < MaxFeederSend
    /\ LET sent == SendMessage(fwire, fconn,
                      NewLogMessage(NewLogEntry(flags.sourceName, line)))
       IN  /\ fwire' = sent.wire
           /\ fpc' = IF sent.err THEN "fatal" ELSE fpc
           /\ fconn' = IF sent.err THEN "closed" ELSE fconn
    /\ UNCHANGED <<flags, feeder, nonFeedVars>>

\* PipeSource.Stream at the end of stdin: Scan returns false, Stream returns
\* nil, runSourceFeeder returns and the deferred client.Close runs.
FeederPipeEOF ==
    /\ fpc = "Stream"
    /\ feeder.fn = "runSourceFeeder"
    /\ fpc' = "exit"
    /\ fconn' = "closed"
    /\ UNCHANGED <<flags, feeder, fwire, nonFeedVars>>

\* streamPipe of a container source, one turn of the loop on a non-empty
\* line of stdout or stderr: the entry is built and sent; an error of
\* SendLog is dropped.
FeederContainerLine(stream, stamped, line) ==
    /\ fpc = "Stream"
    /\ feeder.fn = "runContainerFeeder"
    /\ fconn = "open" => LogsWritten < MaxFeederSend
    /\ fwire' = SendMessage(fwire, fconn,
                   NewLogMessage(ContainerEntry(flags.sourceName,
                                                feeder.containerID,
                                                stream, stamped, line))).wire
    /\ UNCHANGED <<flags, fpc, feeder, fconn, nonFeedVars>>

\* cmd.Wait returns: the logs command of the container runtime has ended;
\* Stream returns and the process ends, closing the connection.
FeederContainerExit ==
    /\ fpc = "Stream"
    /\ feeder.fn = "runContainerFeeder"
    /\ fpc' = "exit"
    /\ fconn' = "closed"
    /\ UNCHANGED <<flags, feeder, fwire, nonFeedVars>>

\* SIGINT or SIGTERM once signal.Notify is in place: client.Close and
\* os.Exit(0).
FeederSignal ==
    /\ fpc \in {"Start", "Stream"}
    /\ fpc' = "exit"
    /\ fconn' = "closed"
    /\ UNCHANGED <<flags, feeder, fwire, nonFeedVars>>

\* The dashboard closes its end of the connection, or exits.
FeederPeerClose ==
    /\ fconn = "open"
    /\ fconn' = "peerClosed"
    /\ UNCHANGED <<flags, fpc, feeder, fwire, nonFeedVars>>

FeederNext ==
    \/ FeederRunDashboard
    \/ \E ok \in BOOLEAN : FeederNewClient(ok)
    \/ FeederInitSource
    \/ \E ok \in BOOLEAN : FeederStart(ok)
    \/ \E line \in FeederLines : FeederPipeLine(line)
    \/ FeederPipeEOF
    \/ \E stream \in {"stdout", "stderr"}, stamped \in BOOLEAN,
          line \in FeederLines : FeederContainerLine(stream, stamped, line)
    \/ FeederContainerExit
    \/ FeederSignal
    \/ FeederPeerClose

SpecFeeder == FeederInit /\ [][FeederNext]_vars

\* The steps of the process itself.
FeederProgramStep ==
    \/ FeederRunDashboard
    \/ \E ok \in BOOLEAN : FeederNewClient(ok)
    \/ FeederInitSource
    \/ \E ok \in BOOLEAN : FeederStart(ok)

\* The origin hands the feeder a line.
FeederLineStep ==
    \/ \E line \in FeederLines : FeederPipeLine(line)
    \/ \E stream \in {"stdout", "stderr"}, stamped \in BOOLEAN,
          line \in FeederLines : FeederContainerLine(stream, stamped, line)

\* SpecFeeder with the process running on and its origin producing lines
\* for as long as the feeder may send them.  The end of the origin, a
\* signal and the dashboard closing the connection may or may not happen.
SpecFeederFair ==
    /\ SpecFeeder
    /\ WF_vars(FeederProgramStep)
    /\ WF_vars(FeederLineStep)

(***************************************************************************)
(* SpecParser: NewLogEntry called with a line drawn from the plain lines   *)
(* of up to MaxWords words and from the JSON objects over the keys of      *)
(* JsonKeyOrder.                                                           *)
(***************************************************************************)
\* The words a plain line is written with.
ParserWords ==
    {"stderr", "Warning", "wArN", "info", "dbg", "Debug", "ok", " ",
     "2024-01-01 10:00:00"}

PlainLines ==
    {PlainLine(ws) : ws \in UNION {[1..n -> ParserWords] : n \in 0..MaxWords}}

\* The values a member of a JSON line can have, by key.
JsonValues ==
    [key \in Range(JsonKeyOrder) |->
        CASE key = "ts" ->
                {JsonString("2024-01-01T10:00:00Z"), JsonString("soon")}
          [] key = "timestamp" ->
                {JsonString("2024-01-01T10:00:00Z"), JsonNumber("7")}
          [] key = "msg" -> {JsonString("boom"), JsonNumber("7")}
          [] key = "message" -> {JsonString("ok")}
          [] key = "level" -> {JsonString("error")}
          [] key = "severity" -> {JsonString("Warning")}
          [] key = "user" -> {JsonString("bob")}]

\* The JSON objects with keys among the given ones.
RECURSIVE Objects(_)
Objects(keys) ==
    IF keys = {} THEN {NoFields}
    ELSE LET key  == CHOOSE k \in keys : TRUE
             rest == Objects(keys \ {key})
         IN  rest \cup {(key :> v) @@ obj : obj \in rest, v \in JsonValues[key]}

JsonLines == {JsonLine(obj) : obj \in Objects(Range(JsonKeyOrder))}

ParserLines == PlainLines \cup JsonLines

ParserInit ==
    /\ BufIdle
    /\ PipeIdle
    /\ LifeIdle
    /\ ReadIdle
    /\ KeyIdle
    /\ RenderIdle
    /\ FeedIdle
    /\ ParseIdle

\* NewLogEntry(source, rawLine), called once.
ParseLine(source, line) ==
    /\ pentry = NoEntry
    /\ pline' = line
    /\ pentry' = NewLogEntry(source, line)
    /\ UNCHANGED nonParseVars

ParserNext ==
    \E source \in {"redis", "db"}, line \in ParserLines :
        ParseLine(source, line)

SpecParser == ParserInit /\ [][ParserNext]_vars

(***************************************************************************)
(* C1: on a buffer that has only been added to since NewBuffer(N), GetAll  *)
(* returns the last N of the entries added, in insertion order, and all of *)
(* them while fewer than N were added.                                     *)
(***************************************************************************)
C1_GetAllLastN ==
    ~cleared => GetAll(buf) = LastN(hist, buf.size)

\* A buffer of capacity at least 2 that has wrapped, with the cursor inside the
\* backing array, so that GetAll stitches two segments.
C1_Wrapped ==
    /\ ~cleared
    /\ buf.size >= 2
    /\ Len(hist) > buf.size
    /\ buf.index # 0
    /\ \E i, j \in 1..Len(hist) : hist[i] # hist[j]

(***************************************************************************)
(* C2: a log message received while logChan is full is dropped: the queue, *)
(* the entry in the consumer's hands and every pane are as before (the     *)
(* oldest queued entry is not evicted), and the handler is back at its     *)
(* scan, not blocked on the send.                                          *)
(***************************************************************************)
C2_FullQueueDropsNewest ==
    [][\A c \in Conns :
          (Len(logChan) = LogChanCap /\ nlog'[c] = nlog[c] + 1)
             => /\ logChan' = logChan
                /\ pending' = pending
                /\ panes' = panes
                /\ hstate'[c] = "scanning"]_vars

\* Nothing has been consumed yet, the queue is full, and the entry a handler
\* received last is not in it: that entry was dropped, and the handler scans on.
C2_Dropped ==
    \E c \in Conns :
        /\ nlog[c] >= 1
        /\ Len(logChan) = LogChanCap
        /\ PeerEntry(c, nlog[c]) \notin Range(logChan)
        /\ logChan[1] = PeerEntry(c, 1)
        /\ pending = <<>>
        /\ paneOrder = <<>>
        /\ hstate[c] = "scanning"

(***************************************************************************)
(* C3: the content of a source's pane buffer is a subsequence of the       *)
(* entries the source sent on its connection.                              *)
(***************************************************************************)
\* The log entries the peer of connection c has sent, in sending order, as the
\* dashboard stores them.
Sent(c) == [i \in 1..nlog[c] |-> ConvertEntry(PeerEntry(c, i))]

C3_PaneSubsequenceOfSent ==
    \A c \in Conns :
        SourceOf(c) \in DOMAIN panes
           => IsSubseq(GetAll(panes[SourceOf(c)].buffer), Sent(c))

\* One source's pane holds two entries with an entry missing between them,
\* while the other source's pane holds entries too.
C3_GapBetweenEntries ==
    \E c, d \in Conns :
        /\ c # d
        /\ SourceOf(c) \in DOMAIN panes
        /\ SourceOf(d) \in DOMAIN panes
        /\ GetAll(panes[SourceOf(d)].buffer) # <<>>
        /\ LET got == GetAll(panes[SourceOf(c)].buffer)
           IN  /\ Len(got) = 2
               /\ got[1].Timestamp + 1 < got[2].Timestamp

(***************************************************************************)
(* C4: the pane list holds each source name once, holds exactly the keys   *)
(* of the pane map, lists the names in the order of first consumption, and *)
(* only ever grows at its end.                                             *)
(***************************************************************************)
C4_PaneOrderFirstSeen ==
    /\ [](/\ NoDuplicates(paneOrder)
          /\ Range(paneOrder) = DOMAIN panes
          /\ paneOrder = seen)
    /\ [][IsPrefix(paneOrder, paneOrder')]_vars

\* Two panes, the alphabetically later source first, and more entries consumed
\* from the first source than it has panes.
C4_TwoPanesLaterNameFirst ==
    /\ paneOrder = <<"web", "api">>
    /\ Len(GetAll(panes["web"].buffer)) = 2
    /\ Len(GetAll(panes["api"].buffer)) = 1

C9_MalformedLineSkipped ==
    [][\A c \in Conns :
          (/\ last' # last
           /\ last'.conn = c
           /\ last'.kind \in {"invalid", "ping", "too_long"})
             => /\ hstate'[c] = "scanning"
                /\ logChan' = logChan]_vars

(***************************************************************************)
(* C6: two dashboard instances never both listen on the path: while one    *)
(* listens, the file at the path stays its socket, so clients reach it and *)
(* a second instance's NewServer fails.                                    *)
(***************************************************************************)
C6_SecondInstanceFails ==
    /\ \A d \in Dashboards : listener[d] = "open" => sockFile = d
    /\ \A d, e \in Dashboards :
          (listener[d] = "open" /\ listener[e] = "open") => d = e

(***************************************************************************)
(* C7: once Server.Close has returned, every connection the server has     *)
(* accepted is closed.                                                     *)
(***************************************************************************)
C7_CloseClosesAccepted ==
    \A d \in Dashboards :
        cpc[d] = "returned" => \A c \in AcceptedBy(d) : ~conn[c].open

(***************************************************************************)
(* C8: when a dashboard process that was running has exited, its socket    *)
(* file is removed and its connections are closed.                         *)
(***************************************************************************)
C8_TornDownOnExit ==
    \A d \in Dashboards :
        dpc[d] = "exited"
           => /\ sockFile # d
              /\ \A c \in AcceptedBy(d) : ~conn[c].open

(***************************************************************************)
(* C10: what a reader call returns is what it would return on the logical  *)
(* content of the buffer before or after one of the writes it overlapped,  *)
(* each write taken as a whole.                                            *)
(***************************************************************************)
C10_ReaderSeesWholeWrites ==
    rpc = "done" => \E content \in allowed : rres = Observed(rop, content)

\* A GetAll that overlapped an Add on a full buffer of capacity 2 and returned
\* the content after it.
C10_ReadOverlappingAdd ==
    /\ rpc = "done"
    /\ rop.name = "GetAll"
    /\ buf.size = 2
    /\ Cardinality(allowed) = 2
    /\ \E content \in allowed : Len(content) = 2 /\ rres # content
    /\ Len(rres) = 2
    /\ wpc = "idle"
    /\ rres = logical


(***************************************************************************)
(* C11: after any sequence of Add and Clear on a buffer of capacity N,     *)
(* 0 <= count <= N and 0 <= index < N, index = count while count < N, and  *)
(* an Add on a full buffer leaves count = N and replaces the oldest entry  *)
(* of the content by the new one at the end.                               *)
(***************************************************************************)
C11_CountAndCursorInRange ==
    /\ [](/\ 0 <= buf.count /\ buf.count <= buf.size
          /\ 0 <= buf.index /\ buf.index < buf.size
          /\ buf.count < buf.size => buf.index = buf.count)
    /\ [][(buf.count = buf.size /\ hist' # hist)
             => /\ buf'.count = buf.size
                /\ GetAll(buf') = Tail(GetAll(buf)) \o <<hist'[Len(hist')]>>]_vars

\* A buffer of capacity at least 2 that was cleared, then filled and wrapped.
C11_FullAgainAfterClear ==
    /\ cleared
    /\ buf.size >= 2
    /\ buf.count = buf.size
    /\ buf.index # 0
    /\ Len(since) > buf.size

(***************************************************************************)
(* C12: Filter(minLevel) returns the entries of GetAll() whose rank        *)
(* (DEBUG 0 < INFO 1 < WARN 2 < ERROR 3) is at least the rank of minLevel, *)
(* in GetAll() order; the results for ERROR, WARN, INFO, DEBUG are each a  *)
(* subsequence of the next, and the result for DEBUG is GetAll().          *)
(***************************************************************************)
\* The rank the specification gives each level.
Rank(level) ==
    CASE level = "DEBUG" -> 0
      [] level = "INFO"  -> 1
      [] level = "WARN"  -> 2
      [] level = "ERROR" -> 3

C12_FilterByRank ==
    /\ \A minLevel \in LogLevels :
          Filter(buf, minLevel) =
             SelectSeq(GetAll(buf), LAMBDA e : Rank(e.Level) >= Rank(minLevel))
    /\ IsSubseq(Filter(buf, LogLevelError), Filter(buf, LogLevelWarn))
    /\ IsSubseq(Filter(buf, LogLevelWarn), Filter(buf, LogLevelInfo))
    /\ IsSubseq(Filter(buf, LogLevelInfo), Filter(buf, LogLevelDebug))
    /\ Filter(buf, LogLevelDebug) = GetAll(buf)

\* A wrapped buffer holding entries of three levels, not in rank order, the
\* lowest one DEBUG: the results for ERROR, WARN and INFO all differ and
\* none is the whole content.
C12_DifferentResults ==
    /\ buf.count = buf.size
    /\ buf.index # 0
    /\ Len(hist) > buf.size
    /\ Filter(buf, LogLevelError) = <<>>
    /\ Len(Filter(buf, LogLevelWarn)) = 1
    /\ Len(Filter(buf, LogLevelInfo)) = 2
    /\ Len(Filter(buf, LogLevelDebug)) = 3
    /\ GetAll(buf)[1].Level = LogLevelWarn
    /\ GetAll(buf)[2].Level = LogLevelDebug

(***************************************************************************)
(* C13: Search(term) returns the entries of GetAll(), in order, whose      *)
(* content or raw contains term ignoring letter case; a term in no field   *)
(* gives the empty result and the empty term gives every entry.            *)
(***************************************************************************)
\* The terms searched for.
SearchTerms ==
    {<<>>, <<"R">>, <<"r", "E">>, <<"u", "p">>, <<"U", "P">>, <<"P">>,
     <<"z">>, <<"Z", "D">>, <<"x">>, <<"e", "r", "r", "r">>}

\* The pairs of an upper-case letter and its lower-case letter.
CasePairs == {{UpperLetters[i], LowerLetters[i]} : i \in 1..Len(UpperLetters)}

\* Two characters that are the same letter, in either case, or the same
\* character.
SameIgnoringCase(a, b) == a = b \/ {a, b} \in CasePairs

\* term occurs in str as a contiguous run, letter case ignored.
OccursIgnoringCase(str, term) ==
    \E off \in 0..(Len(str) - Len(term)) :
        \A i \in 1..Len(term) : SameIgnoringCase(str[off + i], term[i])

C13_SearchIgnoresCase ==
    /\ \A term \in SearchTerms :
          Search(buf, term) =
             SelectSeq(GetAll(buf),
                       LAMBDA e : \/ OccursIgnoringCase(e.Content, term)
                                  \/ OccursIgnoringCase(e.Raw, term))
    /\ Search(buf, <<>>) = GetAll(buf)
    /\ \A term \in SearchTerms :
          (\A e \in Range(GetAll(buf)) :
              /\ ~OccursIgnoringCase(e.Content, term)
              /\ ~OccursIgnoringCase(e.Raw, term))
             => Search(buf, term) = <<>>

\* A wrapped buffer in which one term matches an entry through its raw text
\* only and in the other letter case, one matches content only in the other
\* case, and one matches nothing.
C13_MatchInRawOnly ==
    /\ buf.count = buf.size
    /\ buf.index # 0
    /\ Len(Search(buf, <<"z">>)) = 1
    /\ Len(Search(buf, <<"R">>)) = 2
    /\ Len(GetAll(buf)) = 3
    /\ Search(buf, <<"x">>) = <<>>

(***************************************************************************)
(* C14: Clear leaves count and cursor at zero and GetAll() empty, whatever *)
(* the buffer held; afterwards GetAll() returns the entries added since    *)
(* the Clear, the last N of them, in order, and nothing stored before it.  *)
(* (A step of SpecBuffer that adds nothing to hist is a Clear.)            *)
(***************************************************************************)
C14_ClearForgetsEverything ==
    /\ [](cleared => GetAll(buf) = LastN(since, buf.size))
    /\ [][hist' = hist
             => /\ buf'.count = 0
                /\ buf'.index = 0
                /\ GetAll(buf') = <<>>]_vars

\* A full, wrapped buffer was cleared and written again: the backing array
\* still holds an entry from before the Clear that was not added since.
C14_StaleEntryInBackingArray ==
    /\ cleared
    /\ buf.size >= 2
    /\ Len(since) = 1
    /\ Len(hist) > buf.size + 1
    /\ \E i \in 0..(buf.size - 1) :
          /\ buf.entries[i] # ZeroEntry
          /\ buf.entries[i] \notin Range(since)

(***************************************************************************)
(* C15: GetRecent(n), n >= 0, returns the suffix of GetAll() of length     *)
(* min(n, count), in the same order.                                       *)
(***************************************************************************)
C15_GetRecentIsSuffix ==
    \A n \in 0..(buf.size + 1) :
        /\ GetRecent(buf, n) = LastN(GetAll(buf), n)
        /\ Len(GetRecent(buf, n)) = Min(n, buf.count)

\* A wrapped buffer of three different entries: GetRecent(2) is the last two.
C15_ProperSuffix ==
    /\ buf.count = 3
    /\ buf.size = 3
    /\ buf.index # 0
    /\ Len(GetRecent(buf, 2)) = 2
    /\ GetRecent(buf, 2)[1] = GetAll(buf)[2]
    /\ GetAll(buf)[1] # GetAll(buf)[2]
    /\ GetAll(buf)[2] # GetAll(buf)[3]

(***************************************************************************)
(* C16: in search mode no key bound to a command in normal mode executes   *)
(* its command: a single-character key is appended to the query and does   *)
(* nothing else, tab and shift+tab do nothing.                             *)
(***************************************************************************)
\* The keys bound to a command in normal mode.
CommandKeys ==
    Range(DigitKeys) \cup
       {"l", "z", "tab", "shift+tab", "h", "j", "k", "e", "w", "i", "a", " ",
        "f", "c", "q", "/", "?"}

C16_SearchModeSuppressesCommands ==
    (searchMode # SearchNone /\ tstate = "running")
       => \A key \in CommandKeys :
             HandleKeyPress(AppState, key) =
                [app |-> IF key \in {"tab", "shift+tab"} THEN AppState
                         ELSE [AppState EXCEPT !.searchQuery = Append(@, key)],
                 cmd |-> "nil"]

(***************************************************************************)
(* C17: from every state of the running dashboard a quit key (q, ctrl+c)   *)
(* returns tea.Quit and leaves every field of the App as it is; the step   *)
(* that starts the quit changes no field, and the program then ends.       *)
(***************************************************************************)
C17_QuitFromEveryState ==
    /\ [](tstate # "done"
             => \A key \in {"q", "ctrl+c"} :
                   HandleKeyPress(AppState, key) =
                      [app |-> AppState, cmd |-> "tea.Quit"])
    /\ [][(tstate = "running" /\ tstate' = "quitting")
             => UNCHANGED appFields]_vars
    /\ (tstate = "quitting" ~> tstate = "done")

\* The program has ended from a paused dashboard with three panes, in global
\* search mode with a query typed.
C17_QuitInSearchMode ==
    /\ tstate = "done"
    /\ searchMode = SearchGlobal
    /\ searchQuery = <<"x">>
    /\ paused
    /\ Len(paneOrder) = 3

(***************************************************************************)
(* C18: Enter in search mode sets the search results to the ordered list   *)
(* of {pane, matching entry} pairs for the query, of the focused pane in   *)
(* Local mode and of every pane in pane order in Global mode, and sets the *)
(* search mode to None.                                                    *)
(***************************************************************************)
\* The matches of the query in one pane, as {pane, entry} pairs.
PaneMatches(app, name) ==
    LET found == Search(app.panes[name].buffer, app.searchQuery)
    IN  [i \in 1..Len(found) |-> [PaneName |-> name, Entry |-> found[i]]]

\* The matches in the first k panes of the pane list.
RECURSIVE MatchesUpTo(_, _)
MatchesUpTo(app, k) ==
    IF k = 0 THEN <<>>
    ELSE MatchesUpTo(app, k - 1) \o PaneMatches(app, app.paneOrder[k])

\* The result list the specification asks of a committed search.
ExpectedResults(app) ==
    IF app.searchMode = SearchLocal
       THEN IF Len(app.paneOrder) > 0
               THEN PaneMatches(app, app.paneOrder[app.focusedPane + 1])
               ELSE <<>>
       ELSE MatchesUpTo(app, Len(app.paneOrder))

C18_EnterCommitsSearch ==
    (searchMode # SearchNone /\ searchQuery # <<>>)
       => LET after == HandleKeyPress(AppState, "enter").app
          IN  /\ after.searchMode = SearchNone
              /\ [r \in DOMAIN after.searchResults |->
                    [PaneName |-> after.searchResults[r].PaneName,
                     Entry    |-> after.searchResults[r].Entry]]
                    = ExpectedResults(AppState)

(***************************************************************************)
(* C19 (as the specification states it): in normal mode the zoom key       *)
(* switches MultiPane to Zoomed, taking the focused index as the zoomed    *)
(* index, and Zoomed to MultiPane, for every number of panes; two presses  *)
(* restore the view mode.                                                  *)
(***************************************************************************)
C19_ZoomTogglesAlways ==
    (searchMode = SearchNone /\ tstate = "running")
       => LET once  == HandleKeyPress(AppState, "z").app
              twice == HandleKeyPress(once, "z").app
          IN  /\ viewMode = ViewMultiPane
                    => once = [AppState EXCEPT !.viewMode = ViewZoomed,
                                               !.zoomedPane = focusedPane]
              /\ viewMode = ViewZoomed
                    => once = [AppState EXCEPT !.viewMode = ViewMultiPane]
              /\ twice.viewMode = viewMode

(***************************************************************************)
(* C19 (amended): in normal mode, with at least one pane, the zoom key     *)
(* switches MultiPane to Zoomed, taking the focused index as the zoomed    *)
(* index, and Zoomed to MultiPane; with no pane the zoom key changes       *)
(* nothing; two presses restore the view mode for every number of panes.   *)
(***************************************************************************)
C19_ZoomTogglesWithPanes ==
    (searchMode = SearchNone /\ tstate = "running")
       => LET once  == HandleKeyPress(AppState, "z").app
              twice == HandleKeyPress(once, "z").app
          IN  /\ (viewMode = ViewMultiPane /\ Len(paneOrder) >= 1)
                    => once = [AppState EXCEPT !.viewMode = ViewZoomed,
                                               !.zoomedPane = focusedPane]
              /\ (viewMode = ViewMultiPane /\ Len(paneOrder) = 0)
                    => once = AppState
              /\ viewMode = ViewZoomed
                    => once = [AppState EXCEPT !.viewMode = ViewMultiPane]
              /\ twice.viewMode = viewMode
              /\ viewMode = ViewZoomed => Len(paneOrder) >= 1

\* The second of three panes was focused and then zoomed.
C19_ZoomedOnSecondPane ==
    /\ viewMode = ViewZoomed
    /\ Len(paneOrder) = 3
    /\ focusedPane = 1
    /\ zoomedPane = 1
    /\ nkeys = 2

(***************************************************************************)
(* C20: in normal mode, with n >= 1 panes, tab moves the focus to          *)
(* (focus + 1) mod n and shift+tab to (focus - 1 + n) mod n, wrapping at   *)
(* both ends; tab then shift+tab is the identity and n tabs return to the  *)
(* starting pane; with no pane both keys change nothing.                   *)
(***************************************************************************)
\* The App after the key was pressed k times.
RECURSIVE PressTimes(_, _, _)
PressTimes(app, key, k) ==
    IF k = 0 THEN app
    ELSE PressTimes(HandleKeyPress(app, key).app, key, k - 1)

C20_FocusMovesCircularly ==
    (searchMode = SearchNone /\ tstate = "running")
       => LET n    == Len(paneOrder)
              next == HandleKeyPress(AppState, "tab").app
              prev == HandleKeyPress(AppState, "shift+tab").app
          IN  /\ n = 0 => next = AppState /\ prev = AppState
              /\ n >= 1 =>
                    /\ focusedPane \in 0..(n - 1)
                    /\ next = [AppState EXCEPT !.focusedPane =
                                  IF focusedPane = n - 1 THEN 0
                                  ELSE focusedPane + 1]
                    /\ prev = [AppState EXCEPT !.focusedPane =
                                  IF focusedPane = 0 THEN n - 1
                                  ELSE focusedPane - 1]
                    /\ HandleKeyPress(next, "shift+tab").app = AppState
                    /\ HandleKeyPress(prev, "tab").app = AppState
                    /\ PressTimes(AppState, "tab", n) = AppState
                    /\ PressTimes(AppState, "shift+tab", n) = AppState

\* With three panes, one shift+tab from the first pane has put the focus on
\* the last one, and a tab from there will wrap to the first.
C20_WrappedToLastPane ==
    /\ Len(paneOrder) = 3
    /\ focusedPane = 2
    /\ nkeys = 1
    /\ searchMode = SearchNone
    /\ viewMode = ViewMultiPane
    /\ layout = LayoutVertical

(***************************************************************************)
(* C21: in normal mode a digit key d (1-9) with d-1 below the number of    *)
(* panes sets the focused index to d-1 and, when the view is Zoomed, the   *)
(* zoomed index to d-1 as well, and changes nothing else; with d-1 out of  *)
(* range the key changes nothing.                                          *)
(***************************************************************************)
C21_DigitKeySetsFocus ==
    (searchMode = SearchNone /\ tstate = "running")
       => \A d \in 1..Len(DigitKeys) :
             LET after == HandleKeyPress(AppState, DigitKeys[d]).app
             IN  IF d - 1 < Len(paneOrder)
                    THEN after =
                            [AppState EXCEPT
                                !.focusedPane = d - 1,
                                !.zoomedPane = IF viewMode = ViewZoomed
                                                  THEN d - 1 ELSE zoomedPane]
                    ELSE after = AppState

\* Zoomed on the third of three panes, after the zoom key and the key "3" (in
\* either order).
C21_ZoomedOnThirdPane ==
    /\ viewMode = ViewZoomed
    /\ Len(paneOrder) = 3
    /\ focusedPane = 2
    /\ zoomedPane = 2
    /\ nkeys = 2

C23_FilterKeysSelectFloor ==
    (searchMode = SearchNone /\ tstate = "running")
       => \A key \in {"e", "w", "i", "a"} :
             LET after == HandleKeyPress(AppState, key).app
                 all   == HandleKeyPress(after, "a").app
             IN  /\ after = [AppState EXCEPT !.filterLevel =
                               CASE key = "e" -> "ERROR"
                                 [] key = "w" -> "WARN"
                                 [] key = "i" -> "INFO"
                                 [] key = "a" -> "DEBUG"]
                 /\ \A name \in DOMAIN panes :
                       /\ GetAll(after.panes[name].buffer)
                             = GetAll(panes[name].buffer)
                       /\ Filter(all.panes[name].buffer, all.filterLevel)
                             = GetAll(panes[name].buffer)

\* The key e was pressed with three panes: the filter level is ERROR and the
\* entries of two panes are hidden, not deleted.
C23_EntriesHiddenByError ==
    /\ filterLevel = LogLevelError
    /\ nkeys = 1
    /\ Len(paneOrder) = 3
    /\ \A name \in {"api", "db"} :
          /\ Filter(panes[name].buffer, filterLevel) = <<>>
          /\ Count(panes[name].buffer) = 1

(***************************************************************************)
(* C24: in normal mode the clear key empties the buffer of the focused     *)
(* pane and sets its scroll position to 0; the other panes, the pane list, *)
(* the focus and every other field of the App are unchanged; with no pane  *)
(* the key changes nothing.                                                *)
(***************************************************************************)
C24_ClearFocusedPaneOnly ==
    (searchMode = SearchNone /\ tstate = "running")
       => LET after == HandleKeyPress(AppState, "c").app
          IN  /\ Len(paneOrder) = 0 => after = AppState
              /\ Len(paneOrder) >= 1 =>
                    LET name == paneOrder[focusedPane + 1]
                    IN  /\ DOMAIN after.panes = DOMAIN panes
                        /\ GetAll(after.panes[name].buffer) = <<>>
                        /\ Count(after.panes[name].buffer) = 0
                        /\ after.panes[name].scrollPos = 0
                        /\ after.panes[name].name = name
                        /\ \A other \in DOMAIN panes \ {name} :
                              after.panes[other] = panes[other]
                        /\ [after EXCEPT !.panes = panes] = AppState

\* With three panes the focus was moved to the second one and that pane was
\* cleared: it is empty, the other two still hold their entry.
C24_SecondPaneCleared ==
    /\ Len(paneOrder) = 3
    /\ focusedPane = 1
    /\ nkeys = 2
    /\ ~paused
    /\ Count(panes["api"].buffer) = 0
    /\ panes["api"].scrollPos = 0
    /\ Count(panes["web"].buffer) = 1
    /\ Count(panes["db"].buffer) = 1

(***************************************************************************)
(* C25: in normal mode, while the view is Zoomed, the key Z and the key    *)
(* esc each return the view to MultiPane.                                  *)
(***************************************************************************)
C25_ZoomOutKeys ==
    (searchMode = SearchNone /\ tstate = "running" /\ viewMode = ViewZoomed)
       => \A key \in {"Z", "esc"} :
             HandleKeyPress(AppState, key).app.viewMode = ViewMultiPane

(***************************************************************************)
(* C26: a process started with --source <name> and --docker <container>    *)
(* (or --podman <container>) runs runContainerFeeder for that container    *)
(* and registers under <name> with the container's type, not as the pipe   *)
(* feeder; and no log message a feeder writes carries an entry whose       *)
(* source is the empty name.                                               *)
(***************************************************************************)
C26_ContainerFeederUnderSourceName ==
    /\ ( /\ fpc # "runDashboard"
         /\ flags.sourceName # ""
         /\ flags.dockerContainer # "" \/ flags.podmanContainer # "" )
          => /\ feeder.fn = "runContainerFeeder"
             /\ <<feeder.containerType, feeder.containerID>> \in
                   { <<"docker", flags.dockerContainer>>,
                     <<"podman", flags.podmanContainer>> }
             /\ feeder.containerID # ""
             /\ \A i \in DOMAIN fwire :
                   fwire[i].Type = "source_init"
                      => fwire[i].SourceInfo =
                            [Name |-> flags.sourceName,
                             Type |-> feeder.containerType]
    /\ \A i \in DOMAIN fwire :
          fwire[i].Type = "log" => fwire[i].LogEntry.Source # ""

(***************************************************************************)
(* C27: for a line that is a JSON object, the metadata of the entry are    *)
(* exactly the fields of the object other than the keys resolved as its    *)
(* timestamp, message and level (the first alias present of each kind),    *)
(* with their values, and the content is the resolved message when that is *)
(* a string.                                                               *)
(***************************************************************************)
\* The alias of one kind that is resolved: the first of fields the object
\* has.
AliasUsed(fields, data) ==
    { fields[i] : i \in { n \in 1..Len(fields) :
                            /\ fields[n] \in DOMAIN data
                            /\ \A m \in 1..(n - 1) : fields[m] \notin DOMAIN data } }

C27_MetadataIsTheUnresolvedFields ==
    (pentry # NoEntry /\ pline.json # NoJson)
       => LET data == pline.json
              used == AliasUsed(TimestampFields, data)
                         \cup AliasUsed(MessageFields, data)
                         \cup AliasUsed(LevelFields, data)
          IN  /\ DOMAIN pentry.Metadata = DOMAIN data \ used
              /\ \A k \in DOMAIN pentry.Metadata \cap DOMAIN data :
                    pentry.Metadata[k] = data[k]
              /\ \A m \in AliasUsed(MessageFields, data) :
                    data[m].kind = "string"
                       => pentry.Content = Spell[data[m].str]

(***************************************************************************)
(* C28: the level of the entry NewLogEntry builds is the first of ERROR,   *)
(* WARN, INFO, DEBUG one of whose keywords (ERR/ERROR, WARN/WARNING,       *)
(* INFO/INFORMATION, DEBUG/DBG) occurs in the line, letter case ignored,   *)
(* and INFO when none occurs; it is always one of the four levels.         *)
(***************************************************************************)
\* The keywords of each level.
KeywordsOf ==
    [level \in LogLevels |->
        CASE level = "ERROR" -> {"ERR", "ERROR"}
          [] level = "WARN"  -> {"WARN", "WARNING"}
          [] level = "INFO"  -> {"INFO", "INFORMATION"}
          [] level = "DEBUG" -> {"DEBUG", "DBG"}]

\* A keyword of the level occurs in the text, letter case ignored.
Mentions(text, level) ==
    \E kw \in KeywordsOf[level] : OccursIgnoringCase(text, Spell[kw])

C28_LevelByPriority ==
    pentry # NoEntry
       => LET text == Text(pline)
          IN  /\ pentry.Level \in {"ERROR", "WARN", "INFO", "DEBUG"}
              /\ pentry.Level =
                    IF Mentions(text, "ERROR") THEN "ERROR"
                    ELSE IF Mentions(text, "WARN") THEN "WARN"
                    ELSE IF Mentions(text, "INFO") THEN "INFO"
                    ELSE IF Mentions(text, "DEBUG") THEN "DEBUG"
                    ELSE "INFO"

\* A line with a keyword of DEBUG before one of ERROR, both in lower case:
\* the entry is an ERROR entry.
C28_ErrorOutranksDebug ==
    /\ pline = PlainLine(<<"dbg", "stderr">>)
    /\ pentry.Level = LogLevelError
    /\ pentry.Raw = <<"d", "b", "g", "s", "t", "d", "e", "r", "r">>

(***************************************************************************)
(* C29: when View renders a pane with follow mode off, or with no more     *)
(* filtered entries than visible rows, the scroll position of the pane     *)
(* afterwards lies between 0 and max(0, len(filtered) - visibleRows), for  *)
(* every number of filtered entries, 0 included.                           *)
(***************************************************************************)
\* The rows of a rendered pane that show entries.
VisibleRows(p) == IF p.height - 2 >= 1 THEN p.height - 2 ELSE 1

C29_ScrollOffsetInRange ==
    tstate = "rendering"
       => \A v \in View(AppState, width, height) :
             \A name \in v.rendered :
                LET p        == v.app.panes[name]
                    filtered == Filter(p.buffer, filterLevel)
                    highest  == IF Len(filtered) - VisibleRows(p) > 0
                                   THEN Len(filtered) - VisibleRows(p)
                                   ELSE 0
                IN  (~followMode \/ Len(filtered) <= VisibleRows(p))
                       => p.scrollPos \in 0..highest

(***************************************************************************)
(* C30: when View renders a pane with follow mode on and more filtered     *)
(* entries than visible rows, the scroll position of the pane afterwards   *)
(* is len(filtered) - visibleRows, whatever it was, and the entries shown  *)
(* are the last visibleRows filtered entries, the newest one last.         *)
(***************************************************************************)
C30_FollowShowsNewest ==
    tstate = "rendering"
       => \A v \in View(AppState, width, height) :
             \A name \in v.rendered :
                LET p        == v.app.panes[name]
                    filtered == Filter(p.buffer, filterLevel)
                    shown    == VisibleEntries(p, filterLevel)
                IN  (followMode /\ Len(filtered) > VisibleRows(p))
                       => /\ p.scrollPos = Len(filtered) - VisibleRows(p)
                          /\ shown = LastN(filtered, VisibleRows(p))
                          /\ Len(shown) = VisibleRows(p)
                          /\ shown[Len(shown)] = filtered[Len(filtered)]

\* The zoomed pane, scrolled to the top with follow mode off, is about to be
\* rendered with follow mode on again: it holds three entries and shows two
\* rows, so the scroll position will go from 0 to 1.
C30_FollowBackOnAtTop ==
    /\ tstate = "rendering"
    /\ viewMode = ViewZoomed
    /\ followMode
    /\ filterLevel = LogLevelDebug
    /\ height = 8
    /\ Count(panes["web"].buffer) = 3
    /\ panes["web"].scrollPos = 0
    /\ panes["web"].height = 4

(***************************************************************************)
(* C31: in the horizontal layout of n >= 1 panes with content height       *)
(* H >= 0, the pane at index i (from 0) is rendered floor(H / n) + 1 rows  *)
(* high when i < H mod n and floor(H / n) rows high otherwise, so the      *)
(* heights add up to H and differ by at most 1; the vertical layout shares *)
(* out the width W of the window in the same way.                          *)
(***************************************************************************)
\* f[0] + ... + f[n - 1].
RECURSIVE SumFirst(_, _)
SumFirst(f, n) == IF n = 0 THEN 0 ELSE f[n - 1] + SumFirst(f, n - 1)

\* Share i (from 0) of total shared out among n.
ShareOf(total, n, i) == (total \div n) + (IF i < total % n THEN 1 ELSE 0)

C31_EvenSplit ==
    (/\ tstate = "rendering"
     /\ viewMode = ViewMultiPane
     /\ Len(paneOrder) >= 1
     /\ height - 4 >= 0)
       => \A v \in View(AppState, width, height) :
             v.rendered # {} =>
                LET n        == Len(paneOrder)
                    heightOf == [i \in 0..(n - 1) |->
                                    v.app.panes[paneOrder[i + 1]].height]
                    widthOf  == [i \in 0..(n - 1) |->
                                    v.app.panes[paneOrder[i + 1]].width]
                IN  /\ layout = LayoutHorizontal =>
                          /\ \A i \in 0..(n - 1) :
                                heightOf[i] = ShareOf(height - 4, n, i)
                          /\ SumFirst(heightOf, n) = height - 4
                          /\ \A i, j \in 0..(n - 1) :
                                heightOf[i] - heightOf[j] <= 1
                    /\ layout = LayoutVertical =>
                          /\ \A i \in 0..(n - 1) :
                                widthOf[i] = ShareOf(width, n, i)
                          /\ SumFirst(widthOf, n) = width
                          /\ \A i, j \in 0..(n - 1) :
                                widthOf[i] - widthOf[j] <= 1

\* Three panes have been rendered one above the other in a window with 7
\* rows of content: the first is 3 rows high, the others 2.
C31_SevenRowsForThree ==
    /\ tstate = "running"
    /\ layout = LayoutHorizontal
    /\ height = 11
    /\ Len(paneOrder) = 3
    /\ panes["web"].height = 3
    /\ panes["api"].height = 2
    /\ panes["db"].height = 2

(***************************************************************************)
(* C32: in the grid layout of n >= 1 panes the grid has ceil(sqrt(n))      *)
(* columns and ceil(n / columns) rows; rows * columns >= n and             *)
(* (rows - 1) * columns < n; the pane at index i is in row i div columns,  *)
(* column i mod columns, and every cell with an index >= n is blank; for   *)
(* three panes the grid is 2 by 2 and its fourth cell is blank.            *)
(***************************************************************************)
C32_GridShape ==
    (/\ tstate = "rendering"
     /\ viewMode = ViewMultiPane
     /\ layout = LayoutAutoGrid
     /\ Len(paneOrder) >= 1)
       => LET n     == Len(paneOrder)
              cols  == GridCols(n)
              rows  == GridRows(n)
              cells == GridCells(AppState)
          IN  /\ cols * cols >= n
              /\ (cols - 1) * (cols - 1) < n
              /\ rows * cols >= n
              /\ (rows - 1) * cols < n
              /\ DOMAIN cells = 0..(rows - 1)
              /\ \A row \in 0..(rows - 1) : DOMAIN cells[row] = 0..(cols - 1)
              /\ \A i \in 0..(n - 1) :
                    cells[i \div cols][i % cols] = paneOrder[i + 1]
              /\ \A row \in 0..(rows - 1), col \in 0..(cols - 1) :
                    row * cols + col >= n => cells[row][col] = Blank
              /\ n = 3 => cols = 2 /\ rows = 2 /\ cells[1][1] = Blank

\* Three panes have been rendered in the grid in a window 7 wide with 9 rows
\* of content: each is 3 wide and 4 high, half the window each way.
C32_ThreePanesInTwoByTwo ==
    /\ tstate = "running"
    /\ layout = LayoutAutoGrid
    /\ Len(paneOrder) = 3
    /\ width = 7
    /\ height = 13
    /\ \A name \in {"web", "api", "db"} :
          panes[name].width = 3 /\ panes[name].height = 4

(***************************************************************************)
(* C33: in normal mode "/" enters the local search mode and "?" and        *)
(* "ctrl+/" the global one, each with an empty query; in a search mode     *)
(* "esc" returns to normal mode and empties the query, "backspace" removes *)
(* the last character of the query and nothing else, and does nothing to   *)
(* an empty query, and "enter" returns to normal mode; none of these keys  *)
(* changes the layout, the view mode, the focus, the filter, paused,       *)
(* follow or a buffer.                                                     *)
(***************************************************************************)
\* What the search keys leave alone.
SearchFrame(app) ==
    <<app.layout, app.viewMode, app.focusedPane, app.zoomedPane,
      app.filterLevel, app.paused, app.followMode, app.paneOrder, app.panes>>

C34_FeederEndsAfterPeerClose ==
    /\ (fconn = "peerClosed") ~> (fpc \in {"fatal", "exit"})
    /\ [](fpc = "NewClient" => fwire = <<>>)
    /\ []((fpc = "fatal" /\ fconn = "none") => fwire = <<>>)

(***************************************************************************)
(* C35: a handler that meets a source_init or a source_exit message, a log *)
(* message without log_entry, or the end of its connection leaves the      *)
(* queue, the pane list and every pane unchanged; no step removes a pane,  *)
(* and a pane is only ever added, at the end of the list, for the source   *)
(* of the entry being consumed.                                            *)
(***************************************************************************)
\* The lines that carry no entry, and the end of the connection.
NoEntryKinds == {"source_init", "source_exit", "log_nil", "eof"}

C35_OnlyEntriesTouchPanes ==
    [][/\ (\E c \in Conns, kind \in NoEntryKinds : HandleClient(c, kind))
             => UNCHANGED <<logChan, paneOrder, panes>>
       /\ DOMAIN panes \subseteq DOMAIN panes'
       /\ paneOrder' # paneOrder
             => /\ pending # <<>>
                /\ pending[1].Source \notin DOMAIN panes
                /\ paneOrder' = Append(paneOrder, pending[1].Source)
                /\ DOMAIN panes' = DOMAIN panes \cup {pending[1].Source}]_vars

\* The source web has closed its connection, and its pane still holds the
\* entry it sent.
C35_PaneOutlivesItsSource ==
    /\ hstate["c1"] = "closed"
    /\ last = [conn |-> "c1", kind |-> "eof"]
    /\ paneOrder = <<"web">>
    /\ Count(panes["web"].buffer) = 1
    /\ logChan = <<>>
    /\ pending = <<>>

(***************************************************************************)
(* C36: the focused index is 0 while there is no pane and below the number *)
(* of panes otherwise; in the zoomed view there is at least one pane and   *)
(* the zoomed index is below the number of panes.                          *)
(***************************************************************************)
C36_IndicesInRange ==
    /\ focusedPane >= 0
    /\ Len(paneOrder) = 0 => focusedPane = 0
    /\ Len(paneOrder) > 0 => focusedPane < Len(paneOrder)
    /\ viewMode = ViewZoomed =>
          /\ Len(paneOrder) >= 1
          /\ zoomedPane >= 0
          /\ zoomedPane < Len(paneOrder)

\* With two panes, the focus has gone back from the first pane round to the
\* last, and that pane has been zoomed.
C36_ZoomedOnLastPaneAfterWrap ==
    /\ viewMode = ViewZoomed
    /\ Len(paneOrder) = 2
    /\ focusedPane = 1
    /\ zoomedPane = 1
    /\ nkeys = 2

(***************************************************************************)
(* C37: in the zoomed view the focused index is the zoomed index, so that  *)
(* the clear and scroll keys act on the pane that is shown.                *)
(***************************************************************************)
C37_FocusIsZoomedPane ==
    viewMode = ViewZoomed => focusedPane = zoomedPane

(***************************************************************************)
(* C38: with listenForLogs and the event loop scheduled fairly, every      *)
(* entry in the server queue is eventually handed to the event loop, and   *)
(* every entry handed over is eventually consumed; the entry consumed is   *)
(* added to the pane of its source, or discarded when the dashboard is     *)
(* paused, in whatever search mode and view mode the dashboard is, and     *)
(* it is then neither in the queue nor with listenForLogs any more, an     *)
(* entry being in at most one of the two places and at most once.          *)
(***************************************************************************)
\* The entries the peers can send.
SentEntries == {PeerEntry(ConsumeConn, i) : i \in 1..MaxSend}

\* How many times the entry e is queued or held by listenForLogs.
InFlight(e) ==
    Cardinality({i \in 1..Len(logChan) : logChan[i] = e})
       + (IF pending = <<e>> THEN 1 ELSE 0)

C38_QueuedEntriesAreConsumed ==
    /\ \A e \in SentEntries :
          /\ (\E i \in 1..Len(logChan) : logChan[i] = e) ~> (pending = <<e>>)
          /\ (pending = <<e>>) ~> (InFlight(e) = 0)
          /\ [](InFlight(e) <= 1)
    /\ [][pending # <<>> /\ pending' # pending
             => LET e == pending[1]
                IN  /\ e.Source \in DOMAIN panes'
                    /\ UNCHANGED <<logChan, searchMode, viewMode, paused>>
                    /\ IF paused
                          THEN /\ e \in discarded'
                               /\ \A name \in DOMAIN panes :
                                     panes'[name] = panes[name]
                          ELSE /\ discarded' = discarded
                               /\ LET b == GetAll(panes'[e.Source].buffer)
                                  IN  b[Len(b)] = ConvertEntry(e)]_vars

\* The second entry of web is with listenForLogs and the third is queued
\* behind it, while the dashboard is in the global search mode, zoomed on
\* the pane that holds web's first entry.
C38_InFlightInSearchAndZoom ==
    /\ pending = <<PeerEntry("c1", 2)>>
    /\ logChan = <<PeerEntry("c1", 3)>>
    /\ searchMode = SearchGlobal
    /\ viewMode = ViewZoomed
    /\ Count(panes["web"].buffer) = 1

(***************************************************************************)
(* C39: once Server.Close has been called on a server, its accept loop     *)
(* eventually ends and accepts no connection any more, every handler of    *)
(* the server eventually returns, and the client map of the server         *)
(* eventually is empty and stays empty.                                    *)
(***************************************************************************)
C39_CloseEndsLoopAndHandlers ==
    /\ [][\A d \in Dashboards :
             cpc[d] # "idle" => ~(\E c \in Conns : AcceptConn(d, c))]_vars
    /\ \A d \in Dashboards :
          /\ (cpc[d] # "idle") ~> (apc[d] = "done")
          /\ \A c \in Conns :
                (/\ cpc[d] # "idle"
                 /\ conn[c].dash = d
                 /\ conn[c].hs \in {"started", "registered"})
                   ~> (conn[c].hs = "returned")
          /\ (cpc[d] # "idle") ~> [](clients[d] = {})

=========================================================================
